---------------------------- MODULE Spec2Model ----------------------------
(***************************************************************************)
(* The two scaffolding CLIs of create-worker-app / create-lambda-app as a  *)
(* state machine over the project directory they write.                    *)
(*                                                                         *)
(*   cli = "lambda"   cmd of create-lambda-app with name validation        *)
(*   cli = "lambda4"  the second main.go of create-lambda-app (no name     *)
(*                    validation, prompt answers stored unsplit)           *)
(*   cli = "worker"   create-worker-app's init()                           *)
(*   cli = "worker11" the earlier init() with the database question        *)
(*                                                                         *)
(*   cli = "publish"  the script publishing to GitHub Packages             *)
(*   cli = "detect"   detectPackageManager of create-worker-app            *)
(*                                                                         *)
(* Spec runs one process at a time; SpecConcurrent runs two                *)
(* create-lambda-app processes against the same directory; SpecRoutes runs *)
(* scripts/generate-route.js in a project made by create-worker-app;       *)
(* SpecPublish runs the publish script; SpecDetect runs                    *)
(* detectPackageManager over user agents and installed binaries.           *)
(*                                                                         *)
(* A path is the sequence of its components below the project directory;   *)
(* <<>> is the project directory itself.  A file's content is abstracted   *)
(* to the template it came from, the template tokens still unresolved in   *)
(* it, and the configuration values that were substituted into it.         *)
(***************************************************************************)
EXTENDS Naturals, Integers, Sequences, FiniteSets, TLC

\* Bounds of the model (not program constants).
MaxRuns == 2        \* runs of the CLI against the same working directory
MaxPartial == 1     \* entries a loop completes before the failing one, in a failing stage

----------------------------------------------------------------------------
\* Characters and project names

\* strings.ToLower on one character
ToLowerChar(c) ==
  CASE c = "A" -> "a"
    [] c = "B" -> "b"
    [] OTHER -> c

\* strings.ToLower(strings.ReplaceAll(name, " ", "-"))
NormalizeName(name) ==
  [i \in 1..Len(name) |-> ToLowerChar(IF name[i] = " " THEN "-" ELSE name[i])]

\* regexp ^[a-z][a-z0-9-]*$
ValidName(name) ==
  /\ Len(name) >= 1
  /\ name[1] \in {"a", "b"}
  /\ \A i \in 2..Len(name) : name[i] \in {"a", "b"} \cup {"1"} \cup {"-"}

----------------------------------------------------------------------------
\* Paths

\* filepath.Dir
Dir(path) == SubSeq(path, 1, Len(path) - 1)

\* os.MkdirAll(dir): dir and every ancestor, the project directory included
MkdirAll(dir) == { SubSeq(dir, 1, k) : k \in 0..Len(dir) }

MkdirAllOf(ds) == UNION { MkdirAll(d) : d \in ds }

\* strings.Contains(path, ".github/workflows/")
IsWorkflowPath(path) ==
  \E i \in 1..(Len(path) - 2) : path[i] = ".github" /\ path[i + 1] = "workflows"

Range(s) == { s[i] : i \in 1..Len(s) }

----------------------------------------------------------------------------
\* Template texts

\* Templates of clean_architecture.go: the unresolved token classes of each template text and the
\* Config fields and feature flags its actions refer to.
CleanTemplates ==
  "CleanBaseEntity" :> [tokens |-> {}, fields |-> {}, flags |-> {}] @@
  "CleanRepositoryInterface" :> [tokens |-> {"field"}, fields |-> {"Module"}, flags |-> {}] @@
  "CleanUseCaseInterface" :> [tokens |-> {"field"}, fields |-> {"Module"}, flags |-> {}] @@
  "CleanLambdaHandler" :> [tokens |-> {"field"}, fields |-> {"Module"}, flags |-> {}] @@
  "CleanConfig" :> [tokens |-> {"directive", "field"}, fields |-> {"Name"}, flags |-> {"api", "cognito", "dynamodb", "s3", "secrets", "sqs"}] @@
  "Logger" :> [tokens |-> {"field"}, fields |-> {"Name"}, flags |-> {}] @@
  "CustomErrors" :> [tokens |-> {}, fields |-> {}, flags |-> {}] @@
  "Middleware" :> [tokens |-> {}, fields |-> {}, flags |-> {}]

\* Templates of clean_features.go: the unresolved token classes of each template text and the
\* Config fields and feature flags its actions refer to.
CleanFeatureTemplates ==
  "CleanAPIRouter" :> [tokens |-> {"field"}, fields |-> {"Module"}, flags |-> {}] @@
  "CleanAPIHandlers" :> [tokens |-> {"field"}, fields |-> {"Module"}, flags |-> {}] @@
  "CleanAPIMiddleware" :> [tokens |-> {"field"}, fields |-> {"Module"}, flags |-> {}] @@
  "CleanAPIResponses" :> [tokens |-> {}, fields |-> {}, flags |-> {}] @@
  "CleanDynamoDBClient" :> [tokens |-> {"field"}, fields |-> {"Module"}, flags |-> {}] @@
  "CleanDynamoDBRepository" :> [tokens |-> {"field"}, fields |-> {"Module"}, flags |-> {}] @@
  "CleanUserRepository" :> [tokens |-> {}, fields |-> {}, flags |-> {}] @@
  "CleanSQSClient" :> [tokens |-> {"field"}, fields |-> {"Module"}, flags |-> {}] @@
  "CleanSQSHandler" :> [tokens |-> {"field"}, fields |-> {"Module"}, flags |-> {}] @@
  "CleanProcessMessageUseCase" :> [tokens |-> {}, fields |-> {}, flags |-> {}]

\* Templates of deployment.go: the unresolved token classes of each template text and the
\* Config fields and feature flags its actions refer to.
DeploymentTemplates ==
  "SAMTemplate" :> [tokens |-> {"directive", "field"}, fields |-> {"Architecture", "Description", "Name"}, flags |-> {"api", "cognito", "dynamodb", "eventbridge", "s3", "sqs"}] @@
  "SAMConfig" :> [tokens |-> {"field"}, fields |-> {"Name"}, flags |-> {}] @@
  "BuildSpec" :> [tokens |-> {}, fields |-> {}, flags |-> {}] @@
  "SAMEnvDev" :> [tokens |-> {"directive"}, fields |-> {}, flags |-> {"api", "cognito"}] @@
  "SAMEnvStaging" :> [tokens |-> {"directive", "field"}, fields |-> {"Name"}, flags |-> {"api", "cognito"}] @@
  "SAMEnvProd" :> [tokens |-> {"directive", "field"}, fields |-> {"Name"}, flags |-> {"api", "cognito"}] @@
  "CDKConfig" :> [tokens |-> {}, fields |-> {}, flags |-> {}] @@
  "CDKTSConfig" :> [tokens |-> {}, fields |-> {}, flags |-> {}] @@
  "CDKPackageJSON" :> [tokens |-> {"field"}, fields |-> {"Name"}, flags |-> {}] @@
  "CDKStack" :> [tokens |-> {"directive", "field"}, fields |-> {"Architecture", "Name"}, flags |-> {"api", "cognito", "dynamodb", "s3", "sqs"}] @@
  "CDKApp" :> [tokens |-> {"field"}, fields |-> {"Name"}, flags |-> {}] @@
  "CDKTest" :> [tokens |-> {"directive", "field"}, fields |-> {"Name"}, flags |-> {"api", "cognito", "dynamodb", "sqs"}] @@
  "ServerlessYML" :> [tokens |-> {"directive", "field"}, fields |-> {"Architecture", "Name"}, flags |-> {"api", "cognito", "dynamodb", "s3", "sqs"}] @@
  "ServerlessEnv" :> [tokens |-> {}, fields |-> {}, flags |-> {}] @@
  "ServerlessEnvDev" :> [tokens |-> {}, fields |-> {}, flags |-> {}] @@
  "ServerlessEnvStaging" :> [tokens |-> {"field"}, fields |-> {"Name"}, flags |-> {}] @@
  "ServerlessEnvProd" :> [tokens |-> {"field"}, fields |-> {"Name"}, flags |-> {}] @@
  "TerraformMain" :> [tokens |-> {"directive", "field"}, fields |-> {"Name"}, flags |-> {"api", "cognito", "dynamodb", "s3", "sqs"}] @@
  "TerraformVariables" :> [tokens |-> {"directive", "field"}, fields |-> {"Name"}, flags |-> {"api"}] @@
  "TerraformOutputs" :> [tokens |-> {"directive"}, fields |-> {}, flags |-> {"api", "cognito", "dynamodb", "s3", "sqs"}] @@
  "TerraformVersions" :> [tokens |-> {}, fields |-> {}, flags |-> {}] @@
  "TerraformEnvDev" :> [tokens |-> {"directive"}, fields |-> {}, flags |-> {"api"}] @@
  "TerraformEnvProd" :> [tokens |-> {"directive", "field"}, fields |-> {"Name"}, flags |-> {"api"}] @@
  "TerraformLambdaModule" :> [tokens |-> {}, fields |-> {}, flags |-> {}]

\* Templates of docs.go: the unresolved token classes of each template text and the
\* Config fields and feature flags its actions refer to.
DocTemplates ==
  "ArchitectureDoc" :> [tokens |-> {"directive", "field"}, fields |-> {"Architecture"}, flags |-> {"api", "cognito", "eventbridge", "sqs"}] @@
  "DeploymentDoc" :> [tokens |-> {"directive", "field"}, fields |-> {"DeploymentTool", "Name"}, flags |-> {}] @@
  "APIDoc" :> [tokens |-> {"directive", "field"}, fields |-> {"Name"}, flags |-> {"api", "cognito"}] @@
  "OpenAPISpec" :> [tokens |-> {"directive", "field"}, fields |-> {"Description", "Name"}, flags |-> {"cognito"}] @@
  "GitHubActionsCI" :> [tokens |-> {"directive", "gha"}, fields |-> {}, flags |-> {"api"}] @@
  "GitHubActionsDeploy" :> [tokens |-> {"directive", "field", "gha"}, fields |-> {"DeploymentTool", "Name"}, flags |-> {}] @@
  "HandlerGenerator" :> [tokens |-> {"directive", "field"}, fields |-> {"Architecture", "Name"}, flags |-> {}] @@
  "LocalSetupScript" :> [tokens |-> {"directive", "field"}, fields |-> {"DeploymentTool", "Name", "TestingFramework"}, flags |-> {"dynamodb", "sqs"}] @@
  "TestUtils" :> [tokens |-> {}, fields |-> {}, flags |-> {}]

\* Templates of part_000: the unresolved token classes of each template text and the
\* Config fields and feature flags its actions refer to.
BaseTemplates ==
  "GoMod" :> [tokens |-> {"directive", "field"}, fields |-> {"Module", "TestingFramework"}, flags |-> {"api", "cognito", "secrets"}] @@
  "Makefile" :> [tokens |-> {"directive", "field"}, fields |-> {"Architecture", "DeploymentTool", "Name", "TestingFramework"}, flags |-> {"api"}] @@
  "README" :> [tokens |-> {"directive", "field"}, fields |-> {"Architecture", "DeploymentTool", "Description", "Name", "TestingFramework"}, flags |-> {"api", "cognito", "dynamodb", "eventbridge", "s3", "sns", "sqs"}] @@
  "GitIgnore" :> [tokens |-> {"directive"}, fields |-> {"DeploymentTool"}, flags |-> {}] @@
  "EnvExample" :> [tokens |-> {"directive", "field"}, fields |-> {"Name"}, flags |-> {"api", "cognito", "dynamodb", "s3", "secrets", "sqs"}] @@
  "DockerCompose" :> [tokens |-> {"directive", "field"}, fields |-> {"Name"}, flags |-> {"api", "dynamodb", "sqs"}] @@
  "Dockerfile" :> [tokens |-> {}, fields |-> {}, flags |-> {}]

\* Templates of part_001: the unresolved token classes of each template text and the
\* Config fields and feature flags its actions refer to.
DDDTemplates ==
  "DDDAggregateBase" :> [tokens |-> {"field"}, fields |-> {"Module"}, flags |-> {}] @@
  "DDDEntityBase" :> [tokens |-> {}, fields |-> {}, flags |-> {}] @@
  "DDDValueObject" :> [tokens |-> {}, fields |-> {}, flags |-> {}] @@
  "DDDRepository" :> [tokens |-> {"field"}, fields |-> {"Module"}, flags |-> {}] @@
  "DDDEvent" :> [tokens |-> {}, fields |-> {}, flags |-> {}] @@
  "DDDCommand" :> [tokens |-> {}, fields |-> {}, flags |-> {}] @@
  "DDDQuery" :> [tokens |-> {}, fields |-> {}, flags |-> {}] @@
  "DDDPersistence" :> [tokens |-> {"field"}, fields |-> {"Module"}, flags |-> {}] @@
  "DDDAPIRouter" :> [tokens |-> {"field"}, fields |-> {"Module", "Name"}, flags |-> {}] @@
  "DDDAPIHandlers" :> [tokens |-> {"field"}, fields |-> {"Module"}, flags |-> {}] @@
  "DDDAPIApplicationHandler" :> [tokens |-> {"field"}, fields |-> {"Module"}, flags |-> {}] @@
  "DDDSQSHandler" :> [tokens |-> {"field"}, fields |-> {"Module"}, flags |-> {}] @@
  "DDDSQSClient" :> [tokens |-> {"field"}, fields |-> {"Module"}, flags |-> {}] @@
  "DDDMessageHandler" :> [tokens |-> {"field"}, fields |-> {"Module"}, flags |-> {}] @@
  "DDDDynamoDBRepository" :> [tokens |-> {"field"}, fields |-> {"Module"}, flags |-> {}] @@
  "DDDUserRepository" :> [tokens |-> {}, fields |-> {}, flags |-> {}]

\* Templates of part_002: the unresolved token classes of each template text and the
\* Config fields and feature flags its actions refer to.
SimpleTemplates ==
  "SimpleHandler" :> [tokens |-> {"field"}, fields |-> {"Module"}, flags |-> {}] @@
  "SimpleModels" :> [tokens |-> {}, fields |-> {}, flags |-> {}] @@
  "SimpleService" :> [tokens |-> {"field"}, fields |-> {"Module"}, flags |-> {}] @@
  "SimpleUtils" :> [tokens |-> {"field"}, fields |-> {"Module"}, flags |-> {}] @@
  "SimpleConfig" :> [tokens |-> {"directive", "field"}, fields |-> {"Name"}, flags |-> {"dynamodb", "s3", "sqs"}] @@
  "SimpleAPIHandler" :> [tokens |-> {"field"}, fields |-> {"Module"}, flags |-> {}] @@
  "SimpleAPIModels" :> [tokens |-> {}, fields |-> {}, flags |-> {}] @@
  "SimpleAPIUtils" :> [tokens |-> {"field"}, fields |-> {"Module"}, flags |-> {}] @@
  "SimpleDynamoDBService" :> [tokens |-> {"field"}, fields |-> {"Module"}, flags |-> {}] @@
  "SimpleDynamoDBModels" :> [tokens |-> {}, fields |-> {}, flags |-> {}] @@
  "SimpleSQSHandler" :> [tokens |-> {"field"}, fields |-> {"Module"}, flags |-> {}] @@
  "SimpleSQSService" :> [tokens |-> {"field"}, fields |-> {"Module"}, flags |-> {}] @@
  "SimpleSQSModels" :> [tokens |-> {}, fields |-> {}, flags |-> {}]

Templates ==
  CleanTemplates @@ CleanFeatureTemplates @@ DeploymentTemplates @@ DocTemplates @@
  BaseTemplates @@ DDDTemplates @@ SimpleTemplates

----------------------------------------------------------------------------
\* The dispatch tables of the generator: output path -> template

CleanDirs ==
  << <<"cmd">>,
     <<"internal", "domain", "entities">>,
     <<"internal", "domain", "repositories">>,
     <<"internal", "domain", "services">>,
     <<"internal", "usecases">>,
     <<"internal", "interfaces", "lambda">>,
     <<"internal", "interfaces", "api">>,
     <<"internal", "infrastructure", "database">>,
     <<"internal", "infrastructure", "aws">>,
     <<"internal", "infrastructure", "config">>,
     <<"pkg", "logger">>,
     <<"pkg", "errors">>,
     <<"pkg", "middleware">>,
     <<"test", "unit">>,
     <<"test", "integration">>,
     <<"test", "e2e">>,
     <<"test", "mocks">>,
     <<"docs">>,
     <<"scripts">>,
     <<"deployments">> >>

CleanFiles ==
  <<"internal", "domain", "entities", "base.go">> :> "CleanBaseEntity" @@
  <<"internal", "domain", "repositories", "interfaces.go">> :> "CleanRepositoryInterface" @@
  <<"internal", "usecases", "interfaces.go">> :> "CleanUseCaseInterface" @@
  <<"internal", "interfaces", "lambda", "handler.go">> :> "CleanLambdaHandler" @@
  <<"internal", "infrastructure", "config", "config.go">> :> "CleanConfig" @@
  <<"pkg", "logger", "logger.go">> :> "Logger" @@
  <<"pkg", "errors", "errors.go">> :> "CustomErrors" @@
  <<"pkg", "middleware", "middleware.go">> :> "Middleware"

SimpleDirs ==
  << <<"handlers">>,
     <<"models">>,
     <<"services">>,
     <<"utils">>,
     <<"config">>,
     <<"test">>,
     <<"scripts">>,
     <<"deployments">> >>

SimpleFiles ==
  <<"handlers", "main.go">> :> "SimpleHandler" @@
  <<"models", "models.go">> :> "SimpleModels" @@
  <<"services", "service.go">> :> "SimpleService" @@
  <<"utils", "utils.go">> :> "SimpleUtils" @@
  <<"config", "config.go">> :> "SimpleConfig"

DDDDirs ==
  << <<"cmd">>,
     <<"domain", "aggregate">>,
     <<"domain", "entity">>,
     <<"domain", "valueobject">>,
     <<"domain", "repository">>,
     <<"domain", "service">>,
     <<"domain", "event">>,
     <<"application", "command">>,
     <<"application", "query">>,
     <<"application", "handler">>,
     <<"infrastructure", "persistence">>,
     <<"infrastructure", "messaging">>,
     <<"infrastructure", "config">>,
     <<"interfaces", "lambda">>,
     <<"interfaces", "api">>,
     <<"test">>,
     <<"scripts">>,
     <<"deployments">> >>

DDDFiles ==
  <<"domain", "aggregate", "base.go">> :> "DDDAggregateBase" @@
  <<"domain", "entity", "base.go">> :> "DDDEntityBase" @@
  <<"domain", "valueobject", "base.go">> :> "DDDValueObject" @@
  <<"domain", "repository", "interfaces.go">> :> "DDDRepository" @@
  <<"domain", "event", "base.go">> :> "DDDEvent" @@
  <<"application", "command", "base.go">> :> "DDDCommand" @@
  <<"application", "query", "base.go">> :> "DDDQuery" @@
  <<"infrastructure", "persistence", "dynamodb.go">> :> "DDDPersistence"

CommonFiles ==
  <<"go.mod">> :> "GoMod" @@
  <<"Makefile">> :> "Makefile" @@
  <<"README.md">> :> "README" @@
  <<".gitignore">> :> "GitIgnore" @@
  <<".env.example">> :> "EnvExample" @@
  <<"docker-compose.yml">> :> "DockerCompose" @@
  <<"Dockerfile">> :> "Dockerfile" @@
  <<".github", "workflows", "ci.yml">> :> "GitHubActionsCI" @@
  <<".github", "workflows", "deploy.yml">> :> "GitHubActionsDeploy" @@
  <<"docs", "ARCHITECTURE.md">> :> "ArchitectureDoc" @@
  <<"docs", "DEPLOYMENT.md">> :> "DeploymentDoc" @@
  <<"docs", "API.md">> :> "APIDoc" @@
  <<"scripts", "generate-handler.go">> :> "HandlerGenerator" @@
  <<"scripts", "local-setup.sh">> :> "LocalSetupScript" @@
  <<"test", "testutils", "utils.go">> :> "TestUtils"

SAMFiles ==
  <<"template.yaml">> :> "SAMTemplate" @@
  <<"samconfig.toml">> :> "SAMConfig" @@
  <<"buildspec.yml">> :> "BuildSpec" @@
  <<"deployments", "dev.yaml">> :> "SAMEnvDev" @@
  <<"deployments", "staging.yaml">> :> "SAMEnvStaging" @@
  <<"deployments", "prod.yaml">> :> "SAMEnvProd"

CDKFiles ==
  <<"cdk", "cdk.json">> :> "CDKConfig" @@
  <<"cdk", "tsconfig.json">> :> "CDKTSConfig" @@
  <<"cdk", "package.json">> :> "CDKPackageJSON" @@
  <<"cdk", "lib", "stack.ts">> :> "CDKStack" @@
  <<"cdk", "bin", "app.ts">> :> "CDKApp" @@
  <<"cdk", "test", "stack.test.ts">> :> "CDKTest"

ServerlessFiles ==
  <<"serverless.yml">> :> "ServerlessYML" @@
  <<"serverless.env.yml">> :> "ServerlessEnv" @@
  <<"deployments", "dev.yml">> :> "ServerlessEnvDev" @@
  <<"deployments", "staging.yml">> :> "ServerlessEnvStaging" @@
  <<"deployments", "production.yml">> :> "ServerlessEnvProd"

TerraformFiles ==
  <<"terraform", "main.tf">> :> "TerraformMain" @@
  <<"terraform", "variables.tf">> :> "TerraformVariables" @@
  <<"terraform", "outputs.tf">> :> "TerraformOutputs" @@
  <<"terraform", "versions.tf">> :> "TerraformVersions" @@
  <<"terraform", "environments", "dev.tfvars">> :> "TerraformEnvDev" @@
  <<"terraform", "environments", "prod.tfvars">> :> "TerraformEnvProd" @@
  <<"terraform", "modules", "lambda", "main.tf">> :> "TerraformLambdaModule"

CleanAPIFiles ==
  <<"internal", "interfaces", "api", "router.go">> :> "CleanAPIRouter" @@
  <<"internal", "interfaces", "api", "handlers.go">> :> "CleanAPIHandlers" @@
  <<"internal", "interfaces", "api", "middleware.go">> :> "CleanAPIMiddleware" @@
  <<"internal", "interfaces", "api", "responses.go">> :> "CleanAPIResponses"

\* Mutant: the API handler of the simple layout is written over handlers/main.go.
SimpleAPIFiles_Collides ==
  <<"handlers", "main.go">> :> "SimpleAPIHandler" @@
  <<"models", "api_models.go">> :> "SimpleAPIModels" @@
  <<"utils", "api_utils.go">> :> "SimpleAPIUtils"

SimpleAPIFiles ==
  <<"handlers", "api.go">> :> "SimpleAPIHandler" @@
  <<"models", "api_models.go">> :> "SimpleAPIModels" @@
  <<"utils", "api_utils.go">> :> "SimpleAPIUtils"

DDDAPIFiles ==
  <<"interfaces", "api", "router.go">> :> "DDDAPIRouter" @@
  <<"interfaces", "api", "handlers.go">> :> "DDDAPIHandlers" @@
  <<"application", "handler", "api_handler.go">> :> "DDDAPIApplicationHandler"

CleanDynamoDBFiles ==
  <<"internal", "infrastructure", "database", "dynamodb.go">> :> "CleanDynamoDBClient" @@
  <<"internal", "infrastructure", "database", "repository.go">> :> "CleanDynamoDBRepository" @@
  <<"internal", "domain", "repositories", "user_repository.go">> :> "CleanUserRepository"

SimpleDynamoDBFiles ==
  <<"services", "dynamodb.go">> :> "SimpleDynamoDBService" @@
  <<"models", "dynamo_models.go">> :> "SimpleDynamoDBModels"

\* Mutant: the DynamoDB repository of the ddd layout takes the path of the
\* architecture's persistence file.
DDDDynamoDBFiles_Collides ==
  <<"infrastructure", "persistence", "dynamodb.go">> :> "DDDDynamoDBRepository" @@
  <<"domain", "repository", "user_repository.go">> :> "DDDUserRepository"

DDDDynamoDBFiles ==
  <<"infrastructure", "persistence", "dynamodb_repository.go">> :> "DDDDynamoDBRepository" @@
  <<"domain", "repository", "user_repository.go">> :> "DDDUserRepository"

CleanSQSFiles ==
  <<"internal", "infrastructure", "aws", "sqs.go">> :> "CleanSQSClient" @@
  <<"internal", "interfaces", "lambda", "sqs_handler.go">> :> "CleanSQSHandler" @@
  <<"internal", "usecases", "process_message.go">> :> "CleanProcessMessageUseCase"

SimpleSQSFiles ==
  <<"handlers", "sqs.go">> :> "SimpleSQSHandler" @@
  <<"services", "sqs.go">> :> "SimpleSQSService" @@
  <<"models", "sqs_models.go">> :> "SimpleSQSModels"

DDDSQSFiles ==
  <<"interfaces", "lambda", "sqs_handler.go">> :> "DDDSQSHandler" @@
  <<"infrastructure", "messaging", "sqs_client.go">> :> "DDDSQSClient" @@
  <<"application", "handler", "message_handler.go">> :> "DDDMessageHandler"

----------------------------------------------------------------------------
\* Configuration (generator.Config) and the inputs it is built from

\* strings.Split(answer, " ")[0]
FirstWord(option) == option.first

\* The options of the interactive prompts: the answer the prompt stores and
\* its first word, strings.Split(answer, " ")[0].
Option(first, rest) == [ first |-> first, answer |-> rest ]

DeployOptions ==
  { Option("sam", "sam (AWS Serverless Application Model - AWS native, simple configuration)"),
    Option("cdk", "cdk (AWS Cloud Development Kit - TypeScript/Python, programmable infrastructure)"),
    Option("serverless", "serverless (Serverless Framework - Multi-cloud, large plugin ecosystem)"),
    Option("terraform", "terraform (HashiCorp Terraform - Multi-provider, declarative infrastructure)") }

FeatureOptions ==
  { Option("api", "api (API Gateway - REST APIs with routing and validation)"),
    Option("dynamodb", "dynamodb (DynamoDB - NoSQL database for user/room data)"),
    Option("sqs", "sqs (SQS - Message queue for async processing)"),
    Option("cognito", "cognito (Cognito - User authentication and authorization)") }

ArchOptions ==
  { Option("clean", "clean (Clean Architecture with use cases)"),
    Option("simple", "simple (Simple handler-based structure)"),
    Option("ddd", "ddd (Domain-Driven Design)") }

\* Input sets of the main specification.
NameInputs == { <<"A", " ", "b">>, <<"1", "a">> }
Descriptions == { "demo" }

LambdaInputs ==
  { i \in [ name : NameInputs,
            description : Descriptions,
            deployFlag : { "", "gcp" },
            deployAnswer : DeployOptions,
            featureFlags : ({ {} }),
            featureAnswers : SUBSET FeatureOptions,
            skipGit : BOOLEAN,
            skipInstall : BOOLEAN,
            arch : ArchOptions,
            testing : { Option("testify", "testify (Assertions and mocks)") } ] :
      \* an answer that is never asked for is not an input
      /\ i.deployFlag # "" => i.deployAnswer = (Option("sam", "sam (AWS Serverless Application Model - AWS native, simple configuration)"))
      /\ i.featureFlags # {} => i.featureAnswers = {} }

NoConfig == [ nil |-> TRUE ]

\* Config.HasFeature
HasFeature(c, feature) ==
  feature \in DOMAIN c.Features /\ c.Features[feature]

\* Config.GetEnabledFeatures, as the set of the returned names
GetEnabledFeatures(c) == { f \in DOMAIN c.Features : c.Features[f] }

\* getProjectConfig of the first main.go: short forms extracted from the answers
ConfigOf(i) ==
  [ Name |-> NormalizeName(i.name),
    Description |-> i.description,
    DeploymentTool |-> IF i.deployFlag # "" THEN i.deployFlag ELSE FirstWord(i.deployAnswer),
    Architecture |-> FirstWord(i.arch),
    TestingFramework |-> FirstWord(i.testing),
    Features |-> IF i.featureFlags # {}
                 THEN [f \in i.featureFlags |-> TRUE]
                 ELSE [f \in { FirstWord(o) : o \in i.featureAnswers } |-> TRUE],
    SkipGit |-> i.skipGit,
    SkipInstall |-> i.skipInstall,
    Module |-> <<>> ]

\* fmt.Sprintf("github.com/%s/%s", getGitHubUsername(), config.Name)
DefaultModule(name) == <<"github.com/", "myusername", "/">> \o name

----------------------------------------------------------------------------
\* Rendering (generateFile)

EmptyMap == [x \in {} |-> x]

\* generateFile can return a template error for this (path, template) pair
FileFails(path, t) == ~IsWorkflowPath(path) /\ ("gha" \in Templates[t].tokens)

\* What generateFile writes at path
FileContent(path, t, c) ==
  IF IsWorkflowPath(path) THEN ([ tmpl |-> t, tokens |-> Templates[t].tokens, fields |-> EmptyMap, flags |-> EmptyMap ]) ELSE ([ tmpl |-> t,
                                                     tokens |-> {},
                                                     fields |-> [k \in Templates[t].fields |-> c[k]],
                                                     flags |-> [f \in Templates[t].flags |-> HasFeature(c, f)] ])

\* createMetadataFile's text: %v of the enabled features, no template
MetadataPath == <<".create-lambda-app">>

MetadataContent(c) ==
  [ tmpl |-> "metadata",
    tokens |-> {},
    fields |-> [ Architecture |-> c.Architecture,
                 DeploymentTool |-> c.DeploymentTool,
                 TestingFramework |-> c.TestingFramework ],
    flags |-> [f \in GetEnabledFeatures(c) |-> TRUE] ]

\* Subsets of S with at most k elements
RECURSIVE SubsetsUpTo(_, _)
SubsetsUpTo(S, k) ==
  IF k = 0 THEN { {} }
  ELSE { {} } \cup UNION { { T \cup {x} : T \in SubsetsUpTo(S \ {x}, k - 1) } : x \in S }

----------------------------------------------------------------------------
\* Dispatch

ArchFiles(arch) ==
  CASE arch = "clean" -> CleanFiles
    [] arch = "simple" -> SimpleFiles
    [] arch = "ddd" -> DDDFiles
    [] OTHER -> EmptyMap

DeploymentFiles(tool) ==
  CASE tool = "sam" -> SAMFiles
    [] tool = "cdk" -> CDKFiles
    [] tool = "serverless" -> ServerlessFiles
    [] tool = "terraform" -> TerraformFiles
    [] OTHER -> EmptyMap

OpenAPIPath == <<"docs", "openapi.yaml">>

APIFiles(arch) ==
  CASE arch = "clean" -> CleanAPIFiles
    [] arch = "simple" -> SimpleAPIFiles
    [] arch = "ddd" -> DDDAPIFiles
    [] OTHER -> EmptyMap

DynamoDBFiles(arch) ==
  CASE arch = "clean" -> CleanDynamoDBFiles
    [] arch = "simple" -> SimpleDynamoDBFiles
    [] arch = "ddd" -> DDDDynamoDBFiles
    [] OTHER -> EmptyMap

SQSFiles(arch) ==
  CASE arch = "clean" -> CleanSQSFiles
    [] arch = "simple" -> SimpleSQSFiles
    [] arch = "ddd" -> DDDSQSFiles
    [] OTHER -> EmptyMap

----------------------------------------------------------------------------
\* State

VARIABLES
  npmrc,      \* the keys set in the user's npm configuration
  packageManager, \* what detectPackageManager returned ("" before)
  stat,       \* what os.Stat(projectPath) reported in the current run ("none" before)
  cli,        \* which program runs
  inp,        \* command line and prompt answers of the user
  pc,         \* position of the current run
  config,     \* the Config record of the current run (NoConfig before it exists)
  config0,    \* the Config as getProjectConfig returned it
  dirs,       \* directories that exist, as paths below the project directory
  fs,         \* files that exist: path -> content
  writes,     \* number of writes of each path in the current run
  snap,       \* dirs and fs when the current run started
  err,        \* error the run returned ("" = none)
  exitCode,   \* exit code of the process (-1 while it runs)
  procs,      \* subprocesses started by the current run, in order, with their result
  printed,    \* messages the current run printed
  runs        \* number of the current run

vars == <<npmrc, stat, packageManager, cli, inp, pc, config, config0, dirs, fs, writes, snap, err, exitCode, procs, printed, runs>>

\* What the working directory may hold before the first run
InitialTrees ==
  { [dirs |-> {}, fs |-> EmptyMap],
    [dirs |-> {<<>>}, fs |-> EmptyMap],
    [dirs |-> {<<>>}, fs |-> (<<"README.md">> :> ([ tmpl |-> "foreign", tokens |-> {}, fields |-> EmptyMap, flags |-> EmptyMap ]))] }

\* Mutant: the existence check never finds the directory.
Exists_NeverFound == FALSE

\* os.Stat(projectPath) returns no error / fs.existsSync(projectPath)
Exists == <<>> \in dirs

Fail(e, code) ==
  /\ pc' = "done"
  /\ err' = e
  /\ exitCode' = code

----------------------------------------------------------------------------
\* create-lambda-app: run, up to Generate

\* getProjectConfig: the name is normalized and (first main.go) validated
\* before the other questions; any prompt may be interrupted.
GetProjectConfig ==
  /\ pc = "start"
  /\ cli \in {"lambda", "lambda4"}
  /\ \/ /\ cli = "lambda"
        /\ ~ValidName(NormalizeName(inp.name))
        /\ Fail("invalid project name", 1)
        /\ UNCHANGED <<config, config0>>
     \/ /\ cli = "lambda" => ValidName(NormalizeName(inp.name))
        /\ \/ /\ Fail("prompt interrupted", 1)
              /\ UNCHANGED <<config, config0>>
           \/ /\ config' = IF cli = "lambda" THEN ConfigOf(inp) ELSE ([ ConfigOf(inp) EXCEPT !.Architecture = inp.arch.answer,
                                                                                           !.TestingFramework = inp.testing.answer ])
              /\ config0' = config'
              /\ pc' = "stat"
              /\ UNCHANGED <<err, exitCode>>
  /\ UNCHANGED <<npmrc, stat, packageManager, cli, inp, dirs, fs, writes, snap, procs, printed, runs>>

StatAllowsGenerate_AnyError(result) == result # "nil"

\* The Stat results with which run goes on to Generate: part_003 returns
\* for err == nil and for !os.IsNotExist(err), part_004 for !os.IsNotExist(err)
StatAllowsGenerate(result) == result = "not exist"

\* run: os.Stat(projectPath) and the errors returned for its result
ValidateProjectPath ==
  /\ pc = "stat"
  /\ \E result \in (IF Exists THEN {"nil", "permission denied"} ELSE {"not exist", "permission denied"}) :
       /\ stat' = result
       /\ IF StatAllowsGenerate(result)
          THEN /\ pc' = "generate"
               /\ UNCHANGED <<err, exitCode>>
          ELSE Fail(IF cli = "lambda" /\ result # "nil"
                    THEN "error checking directory" ELSE "already exists", 1)
  /\ UNCHANGED <<npmrc, packageManager, cli, inp, config, config0, dirs, fs, writes, snap, procs, printed, runs>>

----------------------------------------------------------------------------
\* generator.Generate

\* Directories after os.MkdirAll of ds and the generateFile calls for S
DirsAfter(ds, S) == dirs \cup MkdirAllOf(ds) \cup MkdirAllOf({ Dir(p) : p \in S })

\* Files after the generateFile calls for the paths S of the table files
FsAfter(S, files) ==
  [p \in DOMAIN fs \cup S |->
     IF p \in S THEN FileContent(p, files[p], config) ELSE fs[p]]

\* Write counts w after one more os.WriteFile for each path in S
CountWrites(w, S) ==
  [p \in DOMAIN w \cup S |->
     (IF p \in DOMAIN w THEN w[p] ELSE 0) + (IF p \in S THEN 1 ELSE 0)]

\* Error of a `for path, content := range files` loop that stopped after S
LoopError(S, files) ==
  IF \E p \in DOMAIN files \ S : FileFails(p, files[p])
  THEN "failed to parse template" ELSE "failed to write file"

\* The loop over the map files can stop having written exactly S: the files
\* of S are written, and one more file exists on which generateFile fails
\* (a template error, or the file system refusing the directory or the file).
CanStopAfter(S, files) ==
  /\ S \subseteq DOMAIN files
  /\ S # DOMAIN files
  /\ \A p \in S : ~FileFails(p, files[p])

\* The loop over the map files can run to its end.
CanComplete(files) == \A p \in DOMAIN files : ~FileFails(p, files[p])

\* `for _, dir := range ds { os.MkdirAll }` fails after k directories.
MkdirLoopFails(ds) ==
  \E k \in 0..(IF MaxPartial < (Len(ds) - 1) THEN MaxPartial ELSE (Len(ds) - 1)) :
    /\ dirs' = dirs \cup MkdirAllOf({ ds[i] : i \in 1..k })
    /\ Fail("failed to create directory", 1)
    /\ UNCHANGED <<fs, writes>>

\* Mutant: a failing loop removes what the run has written so far.
FileLoopFails_Rollback(ds, files) ==
  \E S \in SubsetsUpTo(DOMAIN files, MaxPartial) :
    /\ CanStopAfter(S, files)
    /\ dirs' = DirsAfter(Range(ds), S)
    /\ fs' = snap.fs
    /\ writes' = CountWrites(writes, S)
    /\ Fail(LoopError(S, files), 1)

\* The map loop fails part of the way.
FileLoopFails(ds, files) ==
  \E S \in SubsetsUpTo(DOMAIN files, MaxPartial) :
    /\ CanStopAfter(S, files)
    /\ dirs' = DirsAfter(Range(ds), S)
    /\ fs' = FsAfter(S, files)
    /\ writes' = CountWrites(writes, S)
    /\ Fail(LoopError(S, files), 1)

\* Directories and files of a generate* function all written.
AllWritten(ds, files) ==
  /\ CanComplete(files)
  /\ dirs' = DirsAfter(Range(ds), DOMAIN files)
  /\ fs' = FsAfter(DOMAIN files, files)
  /\ writes' = (CountWrites(writes, (DOMAIN files)))

\* A generate* function made of a directory loop and a file loop.
Stage(ds, files, next) ==
  \/ MkdirLoopFails(ds)
  \/ FileLoopFails(ds, files)
  \/ /\ AllWritten(ds, files)
     /\ pc' = next
     /\ UNCHANGED <<err, exitCode>>

GenFrame == UNCHANGED <<npmrc, stat, packageManager, cli, inp, config, config0, snap, procs, printed, runs>>

\* Mutant: Generate also replaces a deployment tool it does not know by sam.
GenerateBegin_DefaultsTool ==
  /\ pc = "generate"
  /\ config' = [config EXCEPT
                  !.Module = IF @ = <<>> THEN DefaultModule(config.Name) ELSE @,
                  !.DeploymentTool = IF @ \in {"sam", "cdk", "serverless", "terraform"}
                                     THEN @ ELSE "sam"]
  /\ \/ /\ Fail("failed to create project directory", 1)
        /\ UNCHANGED dirs
     \/ /\ dirs' = dirs \cup MkdirAll(<<>>)
        /\ pc' = "arch"
        /\ UNCHANGED <<err, exitCode>>
  /\ UNCHANGED <<npmrc, stat, packageManager, cli, inp, config0, fs, writes, snap, procs, printed, runs>>

\* Generate, up to the architecture switch: default module, project directory.
GenerateBegin ==
  /\ pc = "generate"
  /\ config' = IF config.Module = <<>>
               THEN [config EXCEPT !.Module = DefaultModule(config.Name)]
               ELSE config
  /\ \/ /\ Fail("failed to create project directory", 1)
        /\ UNCHANGED dirs
     \/ /\ dirs' = dirs \cup MkdirAll(<<>>)
        /\ pc' = "arch"
        /\ UNCHANGED <<err, exitCode>>
  /\ UNCHANGED <<npmrc, stat, packageManager, cli, inp, config0, fs, writes, snap, procs, printed, runs>>

generateCleanArchitecture ==
  /\ pc = "arch"
  /\ config.Architecture = "clean"
  /\ Stage(CleanDirs, CleanFiles, "common")
  /\ GenFrame

generateSimpleStructure ==
  /\ pc = "arch"
  /\ config.Architecture = "simple"
  /\ Stage(SimpleDirs, SimpleFiles, "common")
  /\ GenFrame

generateDDDStructure ==
  /\ pc = "arch"
  /\ config.Architecture = "ddd"
  /\ Stage(DDDDirs, DDDFiles, "common")
  /\ GenFrame

\* default branch of the architecture switch
UnknownArchitecture ==
  /\ pc = "arch"
  /\ config.Architecture \notin {"clean", "simple", "ddd"}
  /\ Fail("unknown architecture", 1)
  /\ UNCHANGED <<dirs, fs, writes>>
  /\ GenFrame

WorkflowsDir == <<".github", "workflows">>

\* generateCommonFiles: .github/workflows, the files, chmod of the setup script
generateCommonFiles ==
  /\ pc = "common"
  /\ \/ MkdirLoopFails(<<WorkflowsDir>>)
     \/ FileLoopFails(<<WorkflowsDir>>, CommonFiles)
     \/ /\ AllWritten(<<WorkflowsDir>>, CommonFiles)
        /\ \/ Fail("chmod failed", 1)
           \/ /\ pc' = "deploy"
              /\ UNCHANGED <<err, exitCode>>
  /\ GenFrame

generateSAMConfig ==
  /\ pc = "deploy"
  /\ config.DeploymentTool = "sam"
  /\ Stage(<<>>, SAMFiles, "api")
  /\ GenFrame

CDKDirs == << <<"cdk", "lib">>, <<"cdk", "bin">>, <<"cdk", "test">> >>

generateCDKConfig ==
  /\ pc = "deploy"
  /\ config.DeploymentTool = "cdk"
  /\ Stage(CDKDirs, CDKFiles, "api")
  /\ GenFrame

generateServerlessConfig ==
  /\ pc = "deploy"
  /\ config.DeploymentTool = "serverless"
  /\ Stage(<<>>, ServerlessFiles, "api")
  /\ GenFrame

TerraformDirs == << <<"terraform", "modules", "lambda">>, <<"terraform", "environments">> >>

generateTerraformConfig ==
  /\ pc = "deploy"
  /\ config.DeploymentTool = "terraform"
  /\ Stage(TerraformDirs, TerraformFiles, "api")
  /\ GenFrame

\* default branch of generateDeploymentConfig
UnknownDeploymentTool ==
  /\ pc = "deploy"
  /\ config.DeploymentTool \notin {"sam", "cdk", "serverless", "terraform"}
  /\ Fail("unknown deployment tool", 1)
  /\ UNCHANGED <<dirs, fs, writes>>
  /\ GenFrame

\* A feature that is not enabled is skipped.
Skip(next) ==
  /\ pc' = next
  /\ UNCHANGED <<dirs, fs, writes, err, exitCode>>

OpenAPIFile == OpenAPIPath :> "OpenAPISpec"

\* generateAPIFeature: the architecture's files, then docs/openapi.yaml
generateAPIFeature_ElseIf ==
  /\ pc = "api"
  /\ IF ~HasFeature(config, "api") THEN Skip("dynamodb")
     ELSE LET files == APIFiles(config.Architecture) IN
          \/ FileLoopFails(<<>>, files)
          \/ /\ CanComplete(files)
             /\ dirs' = DirsAfter({}, DOMAIN files)
             /\ fs' = FsAfter(DOMAIN files, files)
             /\ writes' = (CountWrites(writes, (DOMAIN files)))
             /\ Fail(LoopError({}, OpenAPIFile), 1)
          \/ /\ CanComplete(files @@ OpenAPIFile)
             /\ dirs' = DirsAfter({}, DOMAIN files \cup {OpenAPIPath})
             /\ fs' = FsAfter(DOMAIN files \cup {OpenAPIPath}, files @@ OpenAPIFile)
             /\ writes' = CountWrites((CountWrites(writes, (DOMAIN files))), {OpenAPIPath})
             /\ pc' = "metadata"
             /\ UNCHANGED <<err, exitCode>>
  /\ GenFrame

generateAPIFeature ==
  /\ pc = "api"
  /\ IF ~HasFeature(config, "api") THEN Skip("dynamodb")
     ELSE LET files == APIFiles(config.Architecture) IN
          \/ FileLoopFails(<<>>, files)
          \/ /\ CanComplete(files)
             /\ dirs' = DirsAfter({}, DOMAIN files)
             /\ fs' = FsAfter(DOMAIN files, files)
             /\ writes' = (CountWrites(writes, (DOMAIN files)))
             /\ Fail(LoopError({}, OpenAPIFile), 1)
          \/ /\ CanComplete(files @@ OpenAPIFile)
             /\ dirs' = DirsAfter({}, DOMAIN files \cup {OpenAPIPath})
             /\ fs' = FsAfter(DOMAIN files \cup {OpenAPIPath}, files @@ OpenAPIFile)
             /\ writes' = CountWrites((CountWrites(writes, (DOMAIN files))), {OpenAPIPath})
             /\ pc' = "dynamodb"
             /\ UNCHANGED <<err, exitCode>>
  /\ GenFrame

generateDynamoDBFeature_ErrorDropped ==
  /\ pc = "dynamodb"
  /\ \/ Skip("sqs")
     \/ /\ HasFeature(config, "dynamodb")
        /\ Stage(<<>>, DynamoDBFiles(config.Architecture), "sqs")
  /\ GenFrame

generateDynamoDBFeature ==
  /\ pc = "dynamodb"
  /\ IF ~HasFeature(config, "dynamodb") THEN Skip("sqs")
     ELSE Stage(<<>>, DynamoDBFiles(config.Architecture), "sqs")
  /\ GenFrame

\* Mutant: the SQS files are gated by the dynamodb flag.
generateSQSFeature_WrongFlag ==
  /\ pc = "sqs"
  /\ IF ~HasFeature(config, "dynamodb") THEN Skip("metadata")
     ELSE Stage(<<>>, SQSFiles(config.Architecture), "metadata")
  /\ GenFrame

generateSQSFeature ==
  /\ pc = "sqs"
  /\ IF ~HasFeature(config, "sqs") THEN Skip("metadata")
     ELSE Stage(<<>>, SQSFiles(config.Architecture), "metadata")
  /\ GenFrame

\* Mutant: the error of createMetadataFile is dropped.
createMetadataFile_ErrorDropped ==
  /\ pc = "metadata"
  /\ \/ /\ pc' = "git"
        /\ UNCHANGED <<dirs, fs, writes, err, exitCode>>
     \/ /\ fs' = [p \in DOMAIN fs \cup {MetadataPath} |->
                    IF p = MetadataPath THEN MetadataContent(config) ELSE fs[p]]
        /\ writes' = (CountWrites(writes, ({MetadataPath})))
        /\ pc' = "git"
        /\ UNCHANGED <<dirs, err, exitCode>>
  /\ GenFrame

\* createMetadataFile; on success Generate returns nil
createMetadataFile ==
  /\ pc = "metadata"
  /\ \/ /\ Fail("failed to write file", 1)
        /\ UNCHANGED <<dirs, fs, writes>>
     \/ /\ fs' = [p \in DOMAIN fs \cup {MetadataPath} |->
                    IF p = MetadataPath THEN MetadataContent(config) ELSE fs[p]]
        /\ writes' = (CountWrites(writes, ({MetadataPath})))
        /\ pc' = "git"
        /\ UNCHANGED <<dirs, err, exitCode>>
  /\ GenFrame

----------------------------------------------------------------------------
\* create-lambda-app: run, after Generate

GitCommands == << "git init", "git add", "git commit" >>

\* cmd.Dir = projectPath: the project directory, as a path of the model
ProjectPath == <<>>

\* The error InitGit returns when its first k commands succeed
InitGitError(k) ==
  CASE k = 0 -> "failed to initialize git repository"
    [] k = 1 -> "failed to add files to git"
    [] k = 2 -> "failed to create initial commit"
    [] OTHER -> "nil"

GitRun_RunsAll(k) ==
  [i \in 1..3 |-> [cmd |-> GitCommands[i], ok |-> i <= k, dir |-> ProjectPath]]

\* The subprocesses InitGit starts when its first k commands succeed: a
\* command runs only after the one before it succeeded.
GitRun(k) ==
  [i \in 1..(IF (k + 1) < 3 THEN (k + 1) ELSE 3) |-> [cmd |-> GitCommands[i], ok |-> i <= k, dir |-> ProjectPath]]

\* Mutant: a failing InitGit ends the run with an error.
RunInitGit_Fatal ==
  /\ pc = "git"
  /\ IF config.SkipGit
     THEN /\ pc' = "install"
          /\ UNCHANGED <<procs, printed, err, exitCode>>
     ELSE \E k \in 0..3 :
            /\ procs' = procs \o GitRun(k)
            /\ printed' = printed
            /\ IF k < 3 THEN Fail("failed to initialize git", 1)
               ELSE pc' = "install" /\ UNCHANGED <<err, exitCode>>
  /\ UNCHANGED <<npmrc, stat, packageManager, cli, inp, config, config0, dirs, fs, writes, snap, runs>>

\* run: InitGit unless --skip-git; a failure only prints a warning
RunInitGit ==
  /\ pc = "git"
  /\ IF config.SkipGit
     THEN UNCHANGED <<procs, printed>>
     ELSE \E k \in 0..3 :
            /\ procs' = procs \o GitRun(k)
            /\ printed' = IF InitGitError(k) # "nil"
                          THEN printed \cup {"Warning: Failed to initialize git", InitGitError(k)}
                          ELSE printed
  /\ pc' = "install"
  /\ UNCHANGED <<npmrc, stat, packageManager, cli, inp, config, config0, dirs, fs, writes, snap, err, exitCode, runs>>

\* Mutant: the installation is skipped on --skip-git.
RunInstallDependencies_ChecksSkipGit ==
  /\ pc = "install"
  /\ IF config.SkipGit
     THEN /\ procs' = procs
          /\ printed' = printed \cup {"Successfully created project"}
     ELSE \E ok \in BOOLEAN :
            /\ procs' = Append(procs, [cmd |-> "go mod download", ok |-> ok])
            /\ printed' = printed \cup {"Successfully created project"}
                 \cup (IF ok THEN {} ELSE {"Warning: Failed to install dependencies"})
  /\ pc' = "done"
  /\ err' = ""
  /\ exitCode' = 0
  /\ UNCHANGED <<npmrc, stat, packageManager, cli, inp, config, config0, dirs, fs, writes, snap, runs>>

\* run: InstallDependencies unless --skip-install, then the success message
RunInstallDependencies ==
  /\ pc = "install"
  /\ IF config.SkipInstall
     THEN /\ procs' = procs
          /\ printed' = printed \cup {"Successfully created project"}
     ELSE \E ok \in BOOLEAN :
            /\ procs' = Append(procs, [cmd |-> "go mod download", ok |-> ok])
            /\ printed' = printed \cup {"Successfully created project"}
                 \cup (IF ok THEN {} ELSE {"Warning: Failed to install dependencies"})
  /\ pc' = "done"
  /\ err' = ""
  /\ exitCode' = 0
  /\ UNCHANGED <<npmrc, stat, packageManager, cli, inp, config, config0, dirs, fs, writes, snap, runs>>

----------------------------------------------------------------------------
\* create-worker-app: init
\*   cli = "worker"    index.js with the Cloudflare service questions
\*   cli = "worker11"  the earlier index.js with the database question

Services == {"d1", "kv", "r2", "do", "queues"}

\* Questions of prompts(questions), in order
Questions(c) ==
  IF c = "worker"
  THEN <<"description", "features", "useOpenAPI", "useAuth", "installDeps">>
  ELSE <<"description", "useDatabase", "useOpenAPI">>

IsWorker == cli \in {"worker", "worker11"}

\* The template directory next to index.js: its directories ...
TemplateDirs ==
  { <<>>, <<"src">>, <<"src", "routes">>, <<"src", "schemas">>, <<"src", "lib">>,
    <<"src", "types">>, <<"scripts">> }

\* ... and its files, each with the placeholders in its text
WorkerTemplate ==
  <<"package.json">> :> {"name", "description"} @@
  <<"tsconfig.json">> :> {} @@
  <<"wrangler.toml">> :> {"name"} @@
  <<"README.md">> :> {"name", "description"} @@
  <<".gitignore">> :> {} @@
  <<".create-worker-app">> :> {} @@
  <<"src", "index.ts">> :> {"name"} @@
  <<"src", "routes", "health.ts">> :> {} @@
  <<"src", "schemas", "common.ts">> :> {} @@
  <<"src", "lib", "openapi.ts">> :> {"name", "description"} @@
  <<"src", "types", "env.ts">> :> {} @@
  <<"scripts", "generate-route.js">> :> {}

OpenAPIDependencies == {"@hono/zod-openapi", "@hono/swagger-ui", "zod"}

\* dependencies of the template's package.json: index.js deletes the OpenAPI
\* packages from it, the earlier index.js adds them to it
TemplateDependencies(c) ==
  IF c = "worker" THEN {"hono", "prompts"} \cup OpenAPIDependencies ELSE {"hono", "prompts"}

\* The parsed package.json of the template
TemplatePackageJson(c) ==
  [ name |-> "{{name}}",
    description |-> "{{description}}",
    dependencies |-> TemplateDependencies(c),
    devDependencies |-> {"typescript", "wrangler"},
    generator |-> "undefined" ]

\* src/index.ts of the template, line by line: the source line and the texts
\* of interest found in it ("import.*swagger": the line matches that pattern);
\* name is the route a line added by generate-route.js belongs to
IndexTs ==
  << [no |-> 27, has |-> {}, name |-> <<>>],
     [no |-> 28, has |-> {}, name |-> <<>>],
     [no |-> 29, has |-> {}, name |-> <<>>],
     [no |-> 30, has |-> {}, name |-> <<>>],
     [no |-> 31, has |-> {}, name |-> <<>>],
     [no |-> 32, has |-> {}, name |-> <<>>],
     [no |-> 33, has |-> {}, name |-> <<>>],
     [no |-> 34, has |-> {"swagger", "import", "import.*swagger"}, name |-> <<>>],
     [no |-> 35, has |-> {"import"}, name |-> <<>>],
     [no |-> 36, has |-> {"import"}, name |-> <<>>],
     [no |-> 37, has |-> {"openapi", "import", "import.*openapi"}, name |-> <<>>],
     [no |-> 38, has |-> {"import"}, name |-> <<>>],
     [no |-> 39, has |-> {}, name |-> <<>>],
     [no |-> 40, has |-> {}, name |-> <<>>],
     [no |-> 41, has |-> {}, name |-> <<>>],
     [no |-> 42, has |-> {}, name |-> <<>>],
     [no |-> 43, has |-> {}, name |-> <<>>],
     [no |-> 44, has |-> {}, name |-> <<>>],
     [no |-> 45, has |-> {}, name |-> <<>>],
     [no |-> 46, has |-> {"// Routes"}, name |-> <<>>],
     [no |-> 47, has |-> {"app.route"}, name |-> <<>>],
     [no |-> 48, has |-> {}, name |-> <<>>],
     [no |-> 49, has |-> {}, name |-> <<>>],
     [no |-> 50, has |-> {}, name |-> <<>>],
     [no |-> 51, has |-> {}, name |-> <<>>],
     [no |-> 52, has |-> {"{{name}}"}, name |-> <<>>],
     [no |-> 53, has |-> {}, name |-> <<>>],
     [no |-> 54, has |-> {}, name |-> <<>>],
     [no |-> 55, has |-> {"});"}, name |-> <<>>],
     [no |-> 56, has |-> {"});"}, name |-> <<>>],
     [no |-> 57, has |-> {}, name |-> <<>>],
     [no |-> 58, has |-> {"// Swagger UI"}, name |-> <<>>],
     [no |-> 59, has |-> {"swagger", "openapi", "app.get('/docs'"}, name |-> <<>>],
     [no |-> 60, has |-> {}, name |-> <<>>],
     [no |-> 61, has |-> {}, name |-> <<>>],
     [no |-> 62, has |-> {"openapi", "app.get('/openapi.json'"}, name |-> <<>>],
     [no |-> 63, has |-> {}, name |-> <<>>],
     [no |-> 64, has |-> {}, name |-> <<>>],
     [no |-> 65, has |-> {}, name |-> <<>>],
     [no |-> 66, has |-> {"});"}, name |-> <<>>],
     [no |-> 67, has |-> {"});"}, name |-> <<>>],
     [no |-> 68, has |-> {}, name |-> <<>>],
     [no |-> 69, has |-> {}, name |-> <<>>],
     [no |-> 70, has |-> {}, name |-> <<>>],
     [no |-> 71, has |-> {}, name |-> <<>>],
     [no |-> 72, has |-> {"});"}, name |-> <<>>],
     [no |-> 73, has |-> {}, name |-> <<>>],
     [no |-> 74, has |-> {}, name |-> <<>>],
     [no |-> 75, has |-> {}, name |-> <<>>],
     [no |-> 76, has |-> {}, name |-> <<>>],
     [no |-> 77, has |-> {}, name |-> <<>>],
     [no |-> 78, has |-> {"});"}, name |-> <<>>],
     [no |-> 79, has |-> {}, name |-> <<>>],
     [no |-> 80, has |-> {}, name |-> <<>>] >>

\* The text of a template file beyond its placeholders
TemplateBody(c, p) ==
  CASE p = <<"package.json">> -> TemplatePackageJson(c)
    [] p = <<"src", "index.ts">> -> IndexTs
    [] OTHER -> <<>>

\* The template directory as a tree: directories, and file -> content
TemplateTree(c) ==
  [ dirs |-> TemplateDirs,
    files |-> [p \in DOMAIN WorkerTemplate |->
                 [tmpl |-> "worker-template", tokens |-> WorkerTemplate[p],
                  body |-> TemplateBody(c, p)]] ]

\* fs.readdirSync(src): the entries directly below the directory src
ReadDir(tree, src) ==
  { p \in tree.dirs \cup DOMAIN tree.files : Len(p) = Len(src) + 1 /\ Dir(p) = src }

Last(p) == p[Len(p)]

\* The function with the given set of <<path, content>> pairs
MapOf(pairs) ==
  [p \in { q[1] : q \in pairs } |-> (CHOOSE q \in pairs : q[1] = p)[2]]

\* Mutant: copyDir copies the files of the directory but not its subdirectories.
RECURSIVE CopyDir_Shallow(_, _, _)
CopyDir_Shallow(tree, src, dest) ==
  LET entries == ReadDir(tree, src) IN
  [ dirs |-> MkdirAll(dest),
    pairs |-> { <<dest \o <<Last(e)>>, tree.files[e]>> : e \in entries \ tree.dirs } ]

\* copyDir(src, dest): mkdirSync(dest), then every entry of src: a directory
\* is copied by the recursive call, a file by copyFileSync.
RECURSIVE CopyDir(_, _, _)
CopyDir(tree, src, dest) ==
  LET entries == ReadDir(tree, src)
      sub == { CopyDir(tree, e, dest \o <<Last(e)>>) : e \in entries \cap tree.dirs }
  IN [ dirs |-> MkdirAll(dest) \cup UNION { r.dirs : r \in sub },
       pairs |-> { <<dest \o <<Last(e)>>, tree.files[e]>> : e \in entries \ tree.dirs }
                   \cup UNION { r.pairs : r \in sub } ]

\* The answers of prompts(questions) when the user answered the first n
\* questions: a question that was not answered leaves its key undefined
\* (falsy; `answers.features || []` is empty).
Answers(c, i, n) ==
  LET qs == Questions(c)
      answeredQ(q) == \E k \in 1..n : k <= Len(qs) /\ qs[k] = q
  IN [ description |-> IF answeredQ("description") THEN i.description ELSE "undefined",
       features |-> IF answeredQ("features") THEN i.services ELSE {},
       useDatabase |-> answeredQ("useDatabase") /\ i.useDatabase,
       useOpenAPI |-> answeredQ("useOpenAPI") /\ i.useOpenAPI,
       useAuth |-> answeredQ("useAuth") /\ i.useAuth,
       installDeps |-> answeredQ("installDeps") /\ i.installDeps,
       answered |-> n,
       cli |-> c,
       Name |-> i.name ]

\* text.replace(/\{\{name\}\}/g, ...) and the like
Replace(content, placeholders) ==
  [content EXCEPT !.tokens = content.tokens \ placeholders]

\* Mutant: the description of the template is kept.
UpdatePackageJson_DescriptionKept(content, a) ==
  [content EXCEPT
     !.tokens = {},
     !.body = [@ EXCEPT
        !.name = a.Name,
        !.generator = "create-worker-app",
        !.dependencies =
           IF a.cli = "worker"
           THEN (IF ~a.useOpenAPI THEN @ \ OpenAPIDependencies ELSE @)
           ELSE (IF a.useOpenAPI THEN @ \cup OpenAPIDependencies ELSE @)]]

\* The package.json init writes back
UpdatePackageJson(content, a) ==
  [content EXCEPT
     !.tokens = {},
     !.body = [@ EXCEPT
        !.name = a.Name,
        !.description = a.description,
        !.generator = "create-worker-app",
        !.dependencies =
           IF a.cli = "worker"
           THEN (IF ~a.useOpenAPI THEN @ \ OpenAPIDependencies ELSE @)
           ELSE (IF a.useOpenAPI THEN @ \cup OpenAPIDependencies ELSE @)]]

\* Mutant: the kv block is appended before the d1 block.
BindingsConfig_KvFirst(features) ==
  LET Selected(s) == s \in features IN
  SelectSeq(<<"kv", "d1", "r2", "do", "queues">>, Selected)

\* bindingsConfig after the header line: one block per selected service, in
\* the order of the if statements
BindingsConfig(features) ==
  LET Selected(s) == s \in features IN SelectSeq(<<"d1", "kv", "r2", "do", "queues">>, Selected)

\* The wrangler.toml init writes back: {{name}} replaced, bindingsConfig
\* appended when a service was selected
UpdateWrangler(content, a) ==
  [Replace(content, {"name"}) EXCEPT
     !.body = IF Cardinality(a.features) > 0
              THEN @ \o <<"# Cloudflare service bindings">> \o BindingsConfig(a.features)
              ELSE @]

HasText(line, text) == text \in line.has

\* First index of s from position from on whose line has the text; 0 if none
FirstFrom(s, from, text) ==
  IF \E k \in from..Len(s) : HasText(s[k], text)
  THEN CHOOSE k \in from..Len(s) :
         /\ HasText(s[k], text)
         /\ \A m \in from..(k - 1) : ~HasText(s[m], text)
  ELSE 0

\* Mutant: only the two import lines are removed.
RemoveOpenAPI_ImportsOnly(lines) ==
  LET NoSwaggerImport(l) == ~HasText(l, "import.*swagger")
      NoOpenAPIImport(l) == ~HasText(l, "import.*openapi")
  IN SelectSeq(SelectSeq(lines, NoSwaggerImport), NoOpenAPIImport)

\* The three replace calls on src/index.ts when OpenAPI is declined:
\*   /import.*swagger.*\n/g, /import.*openapi.*\n/g and
\*   /\/\/ Swagger UI[\s\S]*?app\.get\('\/openapi\.json'[\s\S]*?\}\);/g
\* (the last one from the comment line to the first "});" after the route).
RECURSIVE RemoveSwaggerBlocks(_)
RemoveSwaggerBlocks(lines) ==
  LET i == FirstFrom(lines, 1, "// Swagger UI")
      j == IF i = 0 THEN 0 ELSE FirstFrom(lines, i, "app.get('/openapi.json'")
      k == IF j = 0 THEN 0 ELSE FirstFrom(lines, j, "});")
  IN IF k = 0 THEN lines
     ELSE SubSeq(lines, 1, i - 1) \o RemoveSwaggerBlocks(SubSeq(lines, k + 1, Len(lines)))

RemoveOpenAPI(lines) ==
  LET NoSwaggerImport(l) == ~HasText(l, "import.*swagger")
      NoOpenAPIImport(l) == ~HasText(l, "import.*openapi")
  IN RemoveSwaggerBlocks(SelectSeq(SelectSeq(lines, NoSwaggerImport), NoOpenAPIImport))

\* The src/index.ts init writes back
UpdateIndexTs(content, a) ==
  LET lines == IF ~a.useOpenAPI THEN RemoveOpenAPI(content.body) ELSE content.body IN
  [content EXCEPT
     !.body = lines,
     !.tokens = IF \E k \in 1..Len(lines) : HasText(lines[k], "{{name}}") THEN {"name"} ELSE {}]

\* .dev.vars.example (index.js) and .env.example (earlier index.js)
DevVarsExample ==
  [tmpl |-> "dev-vars", tokens |-> {}, body |-> <<"JWT_SECRET=", "API_KEY=">>]

EnvExample ==
  [tmpl |-> "env-example", tokens |-> {},
   body |-> <<"DB_HOST=", "DB_PORT=", "DB_NAME=", "DB_USER=", "DB_PASSWORD=">>]

\* Mutant: .env.example is written whatever the answer to the database question.
WorkerEdits_AlwaysEnvExample(t, a) ==
  LET t1 == [t EXCEPT ![<<"package.json">>] = UpdatePackageJson(@, a)] IN
  IF a.cli = "worker"
  THEN LET t2 == [t1 EXCEPT ![<<"wrangler.toml">>] = UpdateWrangler(@, a)]
           t3 == IF a.useAuth
                 THEN (<<".dev.vars.example">> :> DevVarsExample)
                        @@ [t2 EXCEPT ![<<".gitignore">>] = [@ EXCEPT !.body = @ \o <<".dev.vars">>]]
                 ELSE t2
           t4 == [t3 EXCEPT ![<<"README.md">>] = Replace(@, {"name", "description"})]
           t5 == IF <<"src", "lib", "openapi.ts">> \in DOMAIN t4
                 THEN [t4 EXCEPT ![<<"src", "lib", "openapi.ts">>] = Replace(@, {"name", "description"})]
                 ELSE t4
       IN [t5 EXCEPT ![<<"src", "index.ts">>] = UpdateIndexTs(@, a)]
  ELSE LET t2 == (<<".env.example">> :> EnvExample) @@ t1
       IN [t2 EXCEPT ![<<"src", "index.ts">>] = UpdateIndexTs(@, a)]

\* The files init writes after the copy, given the copied files t and the
\* answers a: package.json, wrangler.toml, .dev.vars.example and .gitignore,
\* README.md, src/lib/openapi.ts, src/index.ts (index.js); package.json,
\* .env.example, src/index.ts (earlier index.js).
WorkerEdits(t, a) ==
  LET t1 == [t EXCEPT ![<<"package.json">>] = UpdatePackageJson(@, a)] IN
  IF a.cli = "worker"
  THEN LET t2 == [t1 EXCEPT ![<<"wrangler.toml">>] = UpdateWrangler(@, a)]
           t3 == IF a.useAuth
                 THEN (<<".dev.vars.example">> :> DevVarsExample)
                        @@ [t2 EXCEPT ![<<".gitignore">>] = [@ EXCEPT !.body = @ \o <<".dev.vars">>]]
                 ELSE t2
           t4 == [t3 EXCEPT ![<<"README.md">>] = Replace(@, {"name", "description"})]
           t5 == IF <<"src", "lib", "openapi.ts">> \in DOMAIN t4
                 THEN [t4 EXCEPT ![<<"src", "lib", "openapi.ts">>] = Replace(@, {"name", "description"})]
                 ELSE t4
       IN [t5 EXCEPT ![<<"src", "index.ts">>] = UpdateIndexTs(@, a)]
  ELSE LET t2 == IF a.useDatabase THEN (<<".env.example">> :> EnvExample) @@ t1 ELSE t1
       IN [t2 EXCEPT ![<<"src", "index.ts">>] = UpdateIndexTs(@, a)]

\* init up to the existence check: the name from argv or from the prompt.  A
\* cancelled name prompt ends index.js with 'Operation cancelled'; the earlier
\* index.js passes the undefined name to path.join, which throws.
WorkerStart ==
  /\ pc = "start"
  /\ IsWorker
  /\ \/ /\ ~inp.fromArgv
        /\ IF cli = "worker" THEN Fail("Operation cancelled", 0) ELSE Fail("TypeError", 1)
     \/ IF Exists
        THEN Fail("already exists", 1)
        ELSE /\ pc' = "questions"
             /\ UNCHANGED <<err, exitCode>>
  /\ UNCHANGED <<npmrc, stat, packageManager, cli, inp, config, config0, dirs, fs, writes, snap, procs, printed, runs>>

\* prompts(questions), which the user may cancel at any question; index.js
\* takes an undefined description for a cancellation
WorkerQuestions ==
  /\ pc = "questions"
  /\ \E n \in 0..Len(Questions(cli)) :
       LET a == Answers(cli, inp, n) IN
       /\ config' = a
       /\ config0' = a
       /\ IF cli = "worker" /\ a.description = "undefined"
          THEN Fail("Operation cancelled", 0)
          ELSE /\ pc' = "create"
               /\ UNCHANGED <<err, exitCode>>
  /\ UNCHANGED <<npmrc, stat, packageManager, cli, inp, dirs, fs, writes, snap, procs, printed, runs>>

\* mkdirSync, copyDir and the edits of the copied files
WorkerCreate ==
  /\ pc = "create"
  /\ LET copy == CopyDir(TemplateTree(cli), <<>>, <<>>)
         t == WorkerEdits(MapOf(copy.pairs), config)
     IN /\ dirs' = dirs \cup MkdirAll(<<>>) \cup copy.dirs
        /\ fs' = [p \in DOMAIN fs \cup DOMAIN t |-> IF p \in DOMAIN t THEN t[p] ELSE fs[p]]
        /\ writes' = CountWrites(writes, DOMAIN t)
  /\ printed' = printed \cup {"Project created successfully"}
  /\ pc' = "winstall"
  /\ UNCHANGED <<npmrc, stat, packageManager, cli, inp, config, config0, snap, err, exitCode, procs, runs>>

\* execSync(`${packageManager} install`) when requested; a failure is caught.
\* The earlier index.js installs nothing.
WorkerInstall ==
  /\ pc = "winstall"
  /\ IF config.installDeps
     THEN \E ok \in BOOLEAN :
            /\ procs' = Append(procs, [cmd |-> "install", ok |-> ok])
            /\ printed' = IF ok THEN printed ELSE printed \cup {"Failed to install dependencies"}
     ELSE UNCHANGED <<procs, printed>>
  /\ pc' = "done"
  /\ err' = ""
  /\ exitCode' = 0
  /\ UNCHANGED <<npmrc, stat, packageManager, cli, inp, config, config0, dirs, fs, writes, snap, runs>>

----------------------------------------------------------------------------
\* The user runs the same command again in the same working directory.
Rerun ==
  /\ pc = "done"
  /\ runs < MaxRuns
  /\ runs' = runs + 1
  /\ pc' = "start"
  /\ config' = NoConfig
  /\ config0' = NoConfig
  /\ writes' = EmptyMap
  /\ snap' = [dirs |-> dirs, fs |-> fs]
  /\ err' = ""
  /\ exitCode' = -1
  /\ procs' = <<>>
  /\ printed' = {}
  /\ stat' = "none"
  /\ UNCHANGED <<npmrc, packageManager, cli, inp, dirs, fs>>

Init ==
  /\ (/\ cli \in {"lambda", "lambda4"}
      /\ inp \in LambdaInputs) \/ (\/ cli = "worker" /\ inp \in ([ name : NameInputs,
                                                                   fromArgv : BOOLEAN,
                                                                   description : Descriptions,
                                                                   services : SUBSET Services,
                                                                   useDatabase : {FALSE},
                                                                   useOpenAPI : BOOLEAN,
                                                                   useAuth : BOOLEAN,
                                                                   installDeps : BOOLEAN ])
                                   \/ cli = "worker11" /\ inp \in ([ name : NameInputs,
                                                                     fromArgv : BOOLEAN,
                                                                     description : Descriptions,
                                                                     services : {{}},
                                                                     useDatabase : BOOLEAN,
                                                                     useOpenAPI : BOOLEAN,
                                                                     useAuth : {FALSE},
                                                                     installDeps : {FALSE} ]))
  /\ pc = "start"
  /\ config = NoConfig
  /\ config0 = NoConfig
  /\ \E t \in InitialTrees :
       /\ dirs = t.dirs
       /\ fs = t.fs
       /\ snap = t
  /\ writes = EmptyMap
  /\ err = ""
  /\ exitCode = -1
  /\ procs = <<>>
  /\ printed = {}
  /\ runs = 1
  /\ npmrc = {}
  /\ stat = "none"
  /\ packageManager = ""

Next ==
  \/ GetProjectConfig
  \/ ValidateProjectPath
  \/ GenerateBegin
  \/ generateCleanArchitecture
  \/ generateSimpleStructure
  \/ generateDDDStructure
  \/ UnknownArchitecture
  \/ generateCommonFiles
  \/ generateSAMConfig
  \/ generateCDKConfig
  \/ generateServerlessConfig
  \/ generateTerraformConfig
  \/ UnknownDeploymentTool
  \/ generateAPIFeature
  \/ generateDynamoDBFeature
  \/ generateSQSFeature
  \/ createMetadataFile
  \/ RunInitGit
  \/ RunInstallDependencies
  \/ WorkerStart
  \/ WorkerQuestions
  \/ WorkerCreate
  \/ WorkerInstall
  \/ Rerun

Spec == Init /\ [][Next]_vars

----------------------------------------------------------------------------
\* The file set Generate selects

\* Files generateFeatures writes for one feature flag
FeatureFiles(arch, f) ==
  CASE f = "api" -> APIFiles(arch) @@ OpenAPIFile
    [] f = "dynamodb" -> DynamoDBFiles(arch)
    [] f = "sqs" -> SQSFiles(arch)
    [] OTHER -> EmptyMap

\* Paths of a successful Generate for an architecture, a deployment tool and a
\* set of enabled features: the stages in the order Generate runs them.
PathsFor(arch, tool, features) ==
  DOMAIN ArchFiles(arch) \cup DOMAIN CommonFiles \cup DOMAIN DeploymentFiles(tool)
    \cup UNION { DOMAIN FeatureFiles(arch, f) : f \in features }
    \cup {MetadataPath}

SelectedPaths(c) == PathsFor(c.Architecture, c.DeploymentTool, GetEnabledFeatures(c))

\* The template Generate selects for a path
SelectedTemplate(c, p) ==
  LET arch == c.Architecture
      all == ArchFiles(arch) @@ CommonFiles @@ DeploymentFiles(c.DeploymentTool)
               @@ (IF HasFeature(c, "api") THEN FeatureFiles(arch, "api") ELSE EmptyMap)
               @@ (IF HasFeature(c, "dynamodb") THEN FeatureFiles(arch, "dynamodb") ELSE EmptyMap)
               @@ (IF HasFeature(c, "sqs") THEN FeatureFiles(arch, "sqs") ELSE EmptyMap)
               @@ (MetadataPath :> "metadata")
  IN all[p]

IsLambda == cli \in {"lambda", "lambda4"}

\* Generate has returned nil in the current run
GenerateSucceeded ==
  /\ IsLambda
  /\ pc \in {"git", "install"} \/ (pc = "done" /\ err = "")

Untouched == dirs = snap.dirs /\ fs = snap.fs

----------------------------------------------------------------------------
\* Properties

\* C1 (as stated): when the project directory exists at the start of a run,
\* the run ends with the error 'already exists' and a non-zero exit code, with
\* nothing in the directory created or changed.  A prompt the user interrupts
\* or cancels is not counted against the statement.
C1_AlwaysAlreadyExists ==
  ((<<>> \in snap.dirs) /\ pc = "done" /\ err \notin {"prompt interrupted", "Operation cancelled"})
    => (err = "already exists" /\ exitCode # 0 /\ Untouched)

\* C1 (amended): when the project directory exists at the start of a run, the
\* run never creates or changes anything in it and never reports success; it
\* ends with 'already exists' and exit code 1 unless it stopped before the
\* existence check (invalid name, interrupted or cancelled prompt) or Stat
\* itself failed.
C1_NoOverwrite ==
  (<<>> \in snap.dirs) =>
    /\ Untouched
    /\ pc \in {"start", "stat", "done"}
    /\ pc = "done" =>
         /\ err \in {"already exists", "invalid project name", "prompt interrupted",
                     "error checking directory", "Operation cancelled", "TypeError"}
         /\ err = "already exists" => exitCode = 1
         /\ err # "Operation cancelled" => exitCode # 0
         /\ config # NoConfig => err \in {"already exists", "error checking directory"}

\* C1 witness: a second run against the tree an earlier successful run left
C1_Witness ==
  /\ runs = 2
  /\ pc = "done"
  /\ err = "already exists"
  /\ MetadataPath \in DOMAIN fs
  /\ Untouched

\* C2 (as stated): when Generate returns 'unknown architecture' or 'unknown
\* deployment tool' the exit code is non-zero and no template file has been
\* written into the project directory.
C2_UnknownValueWritesNothing ==
  (pc = "done" /\ err \in {"unknown architecture", "unknown deployment tool"})
    => (exitCode # 0 /\ writes = EmptyMap /\ fs = snap.fs)

\* C3: when a file of the run cannot be rendered or written, Generate stops:
\* the metadata file is absent, some selected file is missing, every file
\* written earlier in the run is still there with its generated content, and
\* nothing is written or removed afterwards.
C3_AbortNoRollback ==
  /\ [](  (IsLambda /\ pc = "done" /\ err \in {"failed to parse template", "failed to write file"}) =>
            /\ exitCode = 1
            /\ MetadataPath \notin DOMAIN fs
            /\ DOMAIN fs # SelectedPaths(config)
            /\ DOMAIN fs = DOMAIN writes
            /\ \A p \in DOMAIN writes :
                 /\ writes[p] = 1
                 /\ p \in SelectedPaths(config)
                 /\ fs[p] = FileContent(p, SelectedTemplate(config, p), config) )
  /\ [][ (IsLambda /\ pc = "done" /\ err \in {"failed to parse template", "failed to write file"}) => (fs' = fs /\ dirs' = dirs) ]_vars

\* C3 witness: the run stopped in a later stage with the architecture files
\* and one more file on disk
C3_Witness ==
  /\ cli = "lambda"
  /\ pc = "done"
  /\ err = "failed to write file"
  /\ DOMAIN CleanFiles \subseteq DOMAIN fs
  /\ Cardinality(DOMAIN fs) = Cardinality(DOMAIN CleanFiles) + 1
  /\ <<"go.mod">> \notin DOMAIN fs

\* C4 (as stated): after a successful generation no file of the project tree
\* contains an unresolved {{.Field}} reference or {{if}}/{{else}}/{{end}}
\* directive.
C4_NoUnresolvedTokens ==
  GenerateSucceeded =>
    \A p \in DOMAIN fs : fs[p].tokens \cap {"field", "directive"} = {}

\* C5: in a successful Generate run the written paths are exactly the selected
\* ones, each written once and from the template selected for it.
C5_WrittenExactlyOnce ==
  GenerateSucceeded =>
    /\ DOMAIN writes = SelectedPaths(config)
    /\ \A p \in DOMAIN writes :
         /\ writes[p] = 1
         /\ p \in DOMAIN fs
         /\ fs[p].tmpl = SelectedTemplate(config, p)

\* C5 witness: a successful run with every feature stage taken
C5_Witness ==
  /\ GenerateSucceeded
  /\ pc = "git"
  /\ config.Architecture = "simple"
  /\ {"api", "dynamodb", "sqs"} \subseteq GetEnabledFeatures(config)
  /\ Cardinality(DOMAIN writes) = 35

\* C6: for every feature flag f, the generated file set without f is the file
\* set with f minus exactly the files gated by f, and the files on disk are
\* the set of whichever of the two configurations ran.
C6_FlagRemovesExactlyItsFiles ==
  GenerateSucceeded =>
    \A f \in {"api", "dynamodb", "sqs", "cognito"} :
      LET on == SelectedPaths(([config EXCEPT !.Features = [g \in DOMAIN config.Features \cup {f} |-> TRUE]]))
          off == SelectedPaths(([config EXCEPT !.Features = [g \in DOMAIN config.Features \ {f} |-> TRUE]]))
          gated == (DOMAIN FeatureFiles(config.Architecture, f))
      IN /\ gated \subseteq on
         /\ off = on \ gated
         /\ gated \cap off = {}
         /\ DOMAIN fs = IF HasFeature(config, f) THEN on ELSE off
         /\ f \notin {"api", "dynamodb", "sqs"} => gated = {}

\* C6 witness: a successful ddd run with dynamodb off and the other two on
C6_Witness ==
  /\ GenerateSucceeded
  /\ config.Architecture = "ddd"
  /\ GetEnabledFeatures(config) = {"api", "sqs"}
  /\ <<"infrastructure", "persistence", "dynamodb.go">> \in DOMAIN fs
  /\ <<"domain", "repository", "user_repository.go">> \notin DOMAIN fs
  /\ pc = "done"

\* C7: the paths of a successful run are determined by the architecture, the
\* deployment tool and the enabled features alone, and there are some.
C7_DeterministicNonEmpty ==
  GenerateSucceeded =>
    /\ DOMAIN fs = PathsFor(config.Architecture, config.DeploymentTool, GetEnabledFeatures(config))
    /\ DOMAIN fs # {}
    /\ config.Architecture \in {"clean", "simple", "ddd"}
    /\ \A p \in DOMAIN fs : Dir(p) \in dirs

\* C7 witness: a successful run with no feature at all, on terraform
C7_Witness ==
  /\ GenerateSucceeded
  /\ GetEnabledFeatures(config) = {}
  /\ config.DeploymentTool = "terraform"
  /\ config.Architecture = "clean"
  /\ pc = "install"

Commands == { procs[i].cmd : i \in 1..Len(procs) }

\* C8: a failing git or install subprocess only prints a warning: the run
\* ends with success and exit code 0, the step after it is still attempted,
\* and the post-generation stage changes no file.
C8_SubprocessFailureIsWarning ==
  /\ [](  (pc = "done" /\ (\E i \in 1..Len(procs) : ~procs[i].ok)) =>
            /\ exitCode = 0
            /\ err = ""
            /\ \E m \in printed : m \in {"Successfully created project", "Project created successfully"}
            /\ \E m \in printed : m \in {"Warning: Failed to initialize git",
                                         "Warning: Failed to install dependencies",
                                         "Failed to install dependencies"}
            /\ (IsLambda /\ ~config.SkipInstall) => "go mod download" \in Commands )
  /\ [][ (pc \in {"git", "install", "winstall"}) => (fs' = fs /\ dirs' = dirs) ]_vars

\* C8 witness: git init failed, go mod download ran, the run ended with 0
C8_Witness ==
  /\ pc = "done"
  /\ Len(procs) = 2
  /\ procs[1].cmd = "git init" /\ ~procs[1].ok
  /\ procs[2].cmd = "go mod download"
  /\ exitCode = 0

\* C9: InitGit and InstallDependencies start only after Generate returned nil
\* with every selected file and the metadata file written, never in a run
\* that failed, and no git command follows the dependency installation.
C9_SubprocessesOnlyAtEnd ==
  /\ (pc = "done" /\ err # "") => procs = <<>>
  /\ \A i \in 1..Len(procs) : procs[i].cmd \in Range(GitCommands) => i <= 3
  /\ \A i, j \in 1..Len(procs) :
       (procs[i].cmd = "go mod download" /\ procs[j].cmd \in Range(GitCommands)) => j < i
  /\ (IsLambda /\ procs # <<>>) =>
       /\ pc \in {"install", "done"}
       /\ MetadataPath \in DOMAIN fs
       /\ DOMAIN fs = SelectedPaths(config)
  /\ (IsWorker /\ procs # <<>>) => (pc = "done" /\ DOMAIN WorkerTemplate \subseteq DOMAIN fs)

\* C9 witness: all three git commands, then the installation
C9_Witness ==
  /\ IsLambda
  /\ Len(procs) = 4
  /\ procs[3].cmd = "git commit" /\ procs[3].ok
  /\ procs[4] = [cmd |-> "go mod download", ok |-> TRUE]

\* C10 (as stated): after getProjectConfig returned it, no field of the
\* Config record changes.
C10_ConfigImmutable ==
  (IsLambda /\ config # NoConfig) => config = config0

\* C10 (amended): after getProjectConfig returned it, every field of the Config
\* record except Module keeps its value; Generate fills the empty Module with
\* the default module path github.com/<user>/<name> and it stays that way.
C10_ConfigImmutableButModule ==
  /\ [](  (IsLambda /\ config # NoConfig) =>
            /\ \A k \in ({"Name", "Description", "DeploymentTool", "Architecture", "TestingFramework",
                          "Features", "SkipGit", "SkipInstall", "Module"}) \ {"Module"} : config[k] = config0[k]
            /\ config0.Module = <<>>
            /\ config.Module = IF \/ pc \in {"stat", "generate"}
                                  \/ pc = "done" /\ err \in {"already exists", "error checking directory"}
                               THEN <<>>
                               ELSE DefaultModule(config0.Name) )
  /\ [][ (IsLambda /\ config # NoConfig /\ config' # NoConfig /\ config.Module # <<>>)
           => config' = config ]_vars

\* C10 witness: the end of a run in which Generate set the module path
C10_Witness ==
  /\ cli = "lambda"
  /\ pc = "done"
  /\ err = ""
  /\ config # NoConfig
  /\ config.Module = <<"github.com/", "myusername", "/", "a", "-", "b">>
  /\ config0.Module = <<>>

----------------------------------------------------------------------------
\* Two create-lambda-app processes started with the same command line in the
\* same working directory (SpecConcurrent).  The project directory is shared;
\* pc, config, config0, writes, err and exitCode hold one value per process.
\* Both are started with --skip-git --skip-install, and the file system
\* accepts every write.

Processes == {1, 2}

\* Generate as the sequence of its calls: what the call at position stage
\* creates and writes for the configuration c, and the position after it.
StageOf(c, stage) ==
  LET feature(f) == IF HasFeature(c, f) THEN FeatureFiles(c.Architecture, f) ELSE EmptyMap IN
  CASE stage = "generate" -> [ds |-> << <<>> >>, files |-> EmptyMap, next |-> "arch"]
    [] stage = "arch" ->
         [ds |-> (CASE c.Architecture = "clean" -> CleanDirs
                    [] c.Architecture = "simple" -> SimpleDirs
                    [] c.Architecture = "ddd" -> DDDDirs
                    [] OTHER -> <<>>), files |-> ArchFiles(c.Architecture), next |-> "common"]
    [] stage = "common" -> [ds |-> <<WorkflowsDir>>, files |-> CommonFiles, next |-> "deploy"]
    [] stage = "deploy" ->
         [ds |-> (CASE c.DeploymentTool = "cdk" -> CDKDirs
                    [] c.DeploymentTool = "terraform" -> TerraformDirs
                    [] OTHER -> <<>>), files |-> DeploymentFiles(c.DeploymentTool),
          next |-> "api"]
    [] stage = "api" -> [ds |-> <<>>, files |-> feature("api"), next |-> "dynamodb"]
    [] stage = "dynamodb" -> [ds |-> <<>>, files |-> feature("dynamodb"), next |-> "sqs"]
    [] stage = "sqs" -> [ds |-> <<>>, files |-> feature("sqs"), next |-> "metadata"]
    [] stage = "metadata" -> [ds |-> <<>>, files |-> (MetadataPath :> "metadata"), next |-> "done"]

ConcurrentInit ==
  /\ cli = "lambda"
  /\ inp \in ({ i \in LambdaInputs :
                  /\ ValidName(NormalizeName(i.name))
                  /\ i.deployFlag = ""
                  /\ i.skipGit /\ i.skipInstall })
  /\ pc = [r \in Processes |-> "start"]
  /\ config = [r \in Processes |-> NoConfig]
  /\ config0 = [r \in Processes |-> NoConfig]
  /\ \E t \in InitialTrees :
       /\ dirs = t.dirs
       /\ fs = t.fs
       /\ snap = t
  /\ writes = [r \in Processes |-> EmptyMap]
  /\ err = [r \in Processes |-> ""]
  /\ exitCode = [r \in Processes |-> -1]
  /\ procs = <<>>
  /\ printed = {}
  /\ runs = 1
  /\ npmrc = {}
  /\ stat = "none"
  /\ packageManager = ""

\* The process r ends with the error e
FailOf(r, e) ==
  /\ pc' = [pc EXCEPT ![r] = "done"]
  /\ err' = [err EXCEPT ![r] = e]
  /\ exitCode' = [exitCode EXCEPT ![r] = 1]

\* getProjectConfig of process r
ConcurrentGetProjectConfig(r) ==
  /\ pc[r] = "start"
  /\ \/ /\ FailOf(r, "prompt interrupted")
        /\ UNCHANGED <<config, config0>>
     \/ /\ config' = [config EXCEPT ![r] = ConfigOf(inp)]
        /\ config0' = [config0 EXCEPT ![r] = ConfigOf(inp)]
        /\ pc' = [pc EXCEPT ![r] = "stat"]
        /\ UNCHANGED <<err, exitCode>>
  /\ UNCHANGED <<npmrc, stat, packageManager, cli, inp, dirs, fs, writes, snap, procs, printed, runs>>

\* os.Stat(projectPath) of process r: the directory as it is at this moment
ConcurrentValidateProjectPath(r) ==
  /\ pc[r] = "stat"
  /\ IF Exists
     THEN FailOf(r, "already exists")
     ELSE /\ pc' = [pc EXCEPT ![r] = "generate"]
          /\ UNCHANGED <<err, exitCode>>
  /\ UNCHANGED <<npmrc, stat, packageManager, cli, inp, config, config0, dirs, fs, writes, snap, procs, printed, runs>>

\* The next call of Generate in process r; after the metadata file the run
\* prints the success message and exits with 0.
ConcurrentGenerate(r) ==
  /\ pc[r] \in {"generate", "arch", "common", "deploy", "api", "dynamodb", "sqs", "metadata"}
  /\ LET c == IF pc[r] = "generate" /\ config[r].Module = <<>>
              THEN [config[r] EXCEPT !.Module = DefaultModule(config[r].Name)]
              ELSE config[r]
         st == StageOf(c, pc[r])
         S == DOMAIN st.files
     IN /\ config' = [config EXCEPT ![r] = c]
        /\ dirs' = dirs \cup MkdirAllOf(Range(st.ds)) \cup MkdirAllOf({ Dir(p) : p \in S })
        /\ fs' = [p \in DOMAIN fs \cup S |->
                    IF p \notin S THEN fs[p]
                    ELSE IF p = MetadataPath THEN MetadataContent(c)
                    ELSE FileContent(p, st.files[p], c)]
        /\ writes' = [writes EXCEPT ![r] = CountWrites(@, S)]
        /\ pc' = [pc EXCEPT ![r] = st.next]
        /\ IF st.next = "done"
           THEN /\ err' = [err EXCEPT ![r] = ""]
                /\ exitCode' = [exitCode EXCEPT ![r] = 0]
           ELSE UNCHANGED <<err, exitCode>>
  /\ UNCHANGED <<npmrc, stat, packageManager, cli, inp, config0, snap, procs, printed, runs>>

ConcurrentNext ==
  \E r \in Processes :
    \/ ConcurrentGetProjectConfig(r)
    \/ ConcurrentValidateProjectPath(r)
    \/ ConcurrentGenerate(r)

SpecConcurrent == ConcurrentInit /\ [][ConcurrentNext]_vars

\* C11 (as stated): of two concurrent runs for the same project name at most
\* one passes the existence check and writes files; a run that ends with
\* 'already exists' has written nothing.
C11_OneWriterPerDirectory ==
  /\ LET PassedTheCheck(r) ==
           \/ pc[r] \in {"generate", "arch", "common", "deploy", "api", "dynamodb", "sqs", "metadata"}
           \/ pc[r] = "done" /\ err[r] = ""
     IN \A r, q \in Processes : (PassedTheCheck(r) /\ PassedTheCheck(q)) => r = q
  /\ \A r \in Processes : (pc[r] = "done" /\ err[r] = "already exists") => writes[r] = EmptyMap

\* C12 (as stated): every Config getProjectConfig returns, from flags or from
\* prompts, has Architecture in {clean, simple, ddd}, DeploymentTool in {sam,
\* cdk, serverless, terraform} and TestingFramework in {testify, standard,
\* ginkgo}.
C12_ConfigInClosedEnums ==
  (cli \in {"lambda", "lambda4"} /\ config0 # NoConfig) =>
    /\ config0.Architecture \in { FirstWord(o) : o \in ArchOptions }
    /\ config0.DeploymentTool \in { FirstWord(o) : o \in DeployOptions }
    /\ config0.TestingFramework \in { FirstWord(o) : o \in ({ Option("testify", "testify (Assertions and mocks)"),
                                                              Option("standard", "standard (Standard library only)"),
                                                              Option("ginkgo", "ginkgo (BDD-style testing)") }) }

----------------------------------------------------------------------------
\* Properties of create-worker-app

\* init printed the success message and returned
WorkerSucceeded == IsWorker /\ pc = "done" /\ err = ""

\* Some line of the text has the given substring
SomeLineHas(lines, text) == \E k \in 1..Len(lines) : HasText(lines[k], text)

\* C14 (as stated): after a successful create-worker-app run no generated
\* file contains the placeholder {{name}} or {{description}}.
C14_NoPlaceholderLeft ==
  (cli = "worker" /\ WorkerSucceeded) =>
    \A p \in DOMAIN fs : fs[p].tokens \cap {"name", "description"} = {}

C16_EnvExampleFollowsAnswer ==
  WorkerSucceeded =>
    IF config.useDatabase
    THEN /\ <<".env.example">> \in DOMAIN fs
         /\ {"DB_HOST=", "DB_PORT=", "DB_NAME=", "DB_USER=", "DB_PASSWORD="}
              \subseteq Range(fs[<<".env.example">>].body)
    ELSE <<".env.example">> \notin DOMAIN fs

\* C16 witness: the database question answered yes
C16_Witness ==
  /\ cli = "worker11"
  /\ WorkerSucceeded
  /\ inp.useDatabase
  /\ config.answered = 3
  /\ <<".env.example">> \in DOMAIN fs

\* C17: after a successful create-worker-app run the project directory has
\* every directory and every file of the template tree at the same relative
\* path, the ten files the tests name among them; a file init does not
\* rewrite has the template's content.
C17_TemplateTreeCopied ==
  WorkerSucceeded =>
    /\ TemplateDirs \subseteq dirs
    /\ \A p \in DOMAIN WorkerTemplate :
         p \in DOMAIN fs /\ fs[p].tmpl = "worker-template" /\ Dir(p) \in dirs
    /\ { <<"package.json">>, <<"tsconfig.json">>, <<"wrangler.toml">>, <<"README.md">>,
         <<"src", "index.ts">>, <<"src", "routes", "health.ts">>,
         <<"src", "schemas", "common.ts">>, <<"src", "lib", "openapi.ts">>,
         <<"src", "types", "env.ts">>, <<"scripts", "generate-route.js">> } \subseteq DOMAIN fs
    /\ \A p \in ({ <<"tsconfig.json">>, <<".create-worker-app">>, <<"src", "routes", "health.ts">>,
                   <<"src", "schemas", "common.ts">>, <<"src", "types", "env.ts">>,
                   <<"scripts", "generate-route.js">> }) : fs[p] = TemplateTree(cli).files[p]

\* C17 witness: a finished run with a file three levels down in place
C17_Witness ==
  /\ cli = "worker"
  /\ WorkerSucceeded
  /\ <<"src", "routes", "health.ts">> \in DOMAIN fs
  /\ <<"src", "routes">> \in dirs
  /\ Cardinality(DOMAIN fs) = Cardinality(DOMAIN WorkerTemplate)

\* C18: in the generated package.json name is the project name the user gave
\* and description the description the user answered, whatever the other
\* answers; the generator block is added and the other template fields are
\* kept (the dependencies up to the OpenAPI packages).
C18_PackageJsonNameAndDescription ==
  (WorkerSucceeded /\ config.answered >= 1) =>
    LET pkg == fs[<<"package.json">>].body
        template == TemplatePackageJson(cli)
    IN /\ pkg.name = inp.name
       /\ pkg.description = inp.description
       /\ pkg.generator = "create-worker-app"
       /\ pkg.devDependencies = template.devDependencies
       /\ pkg.dependencies \ OpenAPIDependencies = template.dependencies \ OpenAPIDependencies
       /\ fs[<<"package.json">>].tokens = {}

\* C18 witness: a run with services, authentication and no OpenAPI
C18_Witness ==
  /\ cli = "worker"
  /\ WorkerSucceeded
  /\ config.features = {"kv", "r2"}
  /\ config.useAuth
  /\ ~config.useOpenAPI
  /\ fs[<<"package.json">>].body.name = <<"A", " ", "b">>
  /\ fs[<<"package.json">>].body.description = "demo"

\* C19: the generated wrangler.toml has the binding block of exactly the
\* selected services, each once and in the order d1, kv, r2, do, queues;
\* with no service selected nothing is appended to the template's text.
C19_BindingsOfExactlyTheSelection ==
  (cli = "worker" /\ WorkerSucceeded) =>
    LET appended == fs[<<"wrangler.toml">>].body
        S == config.features
    IN /\ S = {} => appended = <<>>
       /\ S # {} => Len(appended) = Cardinality(S) + 1
       /\ \A s \in Services : (Cardinality({ k \in 1..Len(appended) : appended[k] = s })) = IF s \in S THEN 1 ELSE 0
       /\ \A i, j \in 1..Len(appended) :
            (i < j /\ appended[i] \in Services /\ appended[j] \in Services)
              => LET order == <<"d1", "kv", "r2", "do", "queues">>
                     Position(s) == CHOOSE k \in 1..Len(order) : order[k] = s
                 IN Position(appended[i]) < Position(appended[j])
       /\ "name" \notin fs[<<"wrangler.toml">>].tokens

\* C19 witness: three services selected, queues, d1 and kv
C19_Witness ==
  /\ cli = "worker"
  /\ WorkerSucceeded
  /\ inp.services = {"queues", "d1", "kv"}
  /\ fs[<<"wrangler.toml">>].body = <<"# Cloudflare service bindings", "d1", "kv", "queues">>

\* C20 (as stated): when the user cancels create-worker-app, at the name
\* prompt or at any later question, the run ends with 'Operation cancelled'
\* and exit code 0 and no project directory or file has been created.
C20_CancelCreatesNothing ==
  /\ (cli = "worker" /\ pc = "done" /\ err = "Operation cancelled") =>
       (exitCode = 0 /\ Untouched)
  /\ (/\ cli = "worker"
      /\ config # NoConfig
      /\ config.answered < Len(Questions(cli))) =>
       (pc = "done" /\ err = "Operation cancelled" /\ exitCode = 0 /\ Untouched)

----------------------------------------------------------------------------
\* The text of the metadata file's features field

\* The slices GetEnabledFeatures can return for the enabled set S: the range
\* over the map visits the features in any order
Orderings(S) ==
  { o \in [1..Cardinality(S) -> S] : \A i, j \in 1..Cardinality(S) : o[i] = o[j] => i = j }

\* The elements of list with sep between them, as a sequence of pieces of text
RECURSIVE Join(_, _)
Join(list, sep) ==
  IF Len(list) = 0 THEN <<>>
  ELSE IF Len(list) = 1 THEN <<list[1]>>
  ELSE <<list[1], sep>> \o Join(Tail(list), sep)

\* A JSON string literal followed by more elements of a JSON array
RECURSIVE IsJSONStrings(_)
IsJSONStrings(text) ==
  /\ Len(text) >= 3
  /\ text[1] = "\"" /\ text[2] \notin {"\"", ",", " ", "[", "]"} /\ text[3] = "\""
  /\ \/ Len(text) = 3
     \/ /\ Len(text) > 4
        /\ text[4] = ","
        /\ IsJSONStrings(SubSeq(text, 5, Len(text)))

\* C21 (as stated): the features field of the .create-lambda-app metadata
\* file is a JSON array of strings for every set of enabled features, the
\* empty set included.
C21_MetadataFeaturesIsJSONArray ==
  (IsLambda /\ MetadataPath \in DOMAIN fs) =>
    \A list \in Orderings(DOMAIN fs[MetadataPath].flags) :
      LET text == <<"[">> \o Join(list, " ") \o <<"]">>
      IN /\ Len(text) >= 2
         /\ text[1] = "["
         /\ text[Len(text)] = "]"
         /\ Len(text) = 2 \/ IsJSONStrings(SubSeq(text, 2, Len(text) - 1))

\* ---------------------------------------------------------------------------
\* scripts/generate-route.js of a generated worker project
\* ---------------------------------------------------------------------------

MaxRoutes == 2

\* The const and let declarations of the script's top-level scope, in source
\* order
ScriptDeclarations ==
  << "fs", "path", "args", "name", "method", "routePath", "fileName",
     "pascalCase", "tag", "actualPath", "schemaContent", "routeContent",
     "schemaPath", "routePath", "indexPath", "indexContent", "importLine",
     "lastImportIndex", "nextLineIndex", "routeLine", "routesComment",
     "routesIndex", "routesNextLine", "nextRouteIndex" >>

\* name.replace(/([A-Z])/g, '-$1')
RECURSIVE Dashed(_)
Dashed(name) ==
  IF name = <<>> THEN <<>>
  ELSE (IF Head(name) \in {"A", "B"} THEN <<"-", Head(name)>> ELSE <<Head(name)>>)
       \o Dashed(Tail(name))

\* name.replace(/([A-Z])/g, '-$1').toLowerCase().replace(/^-/, '')
FileName(name) ==
  LET d == Dashed(name)
      l == [i \in 1..Len(d) |-> ToLowerChar(d[i])]
  IN IF l # <<>> /\ l[1] = "-" THEN Tail(l) ELSE l

\* `${fileName}.ts` as one path component
TsFile(fileName) ==
  CASE fileName = <<"a">> -> "a.ts"
    [] fileName = <<"a", "-", "b">> -> "a-b.ts"
    [] fileName = <<"b", "-", "a">> -> "b-a.ts"
    [] OTHER -> "other.ts"

\* path.join(__dirname, '..', 'src', 'schemas' | 'routes', `${fileName}.ts`)

RouteFile(dir, name) == <<"src", dir, TsFile(FileName(name))>>
\* lastIndexOf('import'), indexOf('\n', ...), slice: the import goes below the
\* line of the last 'import' (below the first line when there is none)
AddImport(lines, name) ==
  LET k == (IF \E k \in 1..Len(lines) : HasText(lines[k], "import")
            THEN CHOOSE k \in 1..Len(lines) :
                   /\ HasText(lines[k], "import")
                   /\ \A m \in (k + 1)..Len(lines) : ~HasText(lines[m], "import")
            ELSE 0)
      at == IF k = 0 THEN 1 ELSE k
  IN SubSeq(lines, 1, at) \o <<[no |-> 0, has |-> {"import"}, name |-> name]>>
       \o SubSeq(lines, at + 1, Len(lines))

\* indexOf('// Routes'), indexOf('\n', ...), indexOf('app.route', ...), slice:
\* the registration goes in front of the first app.route below the comment
\* (for -1, slice puts it in front of the last character of the file)
AddRoute(lines, name) ==
  LET c == FirstFrom(lines, 1, "// Routes")
      r == FirstFrom(lines, (IF c = 0 THEN 1 ELSE c) + 1, "app.route")
      at == (IF r = 0 THEN Len(lines) ELSE r) - 1
  IN SubSeq(lines, 1, at) \o <<[no |-> 0, has |-> {"app.route"}, name |-> name]>>
       \o SubSeq(lines, at + 1, Len(lines))

RouteRuns == { k \in 1..Len(procs) : procs[k].cmd = "generate-route" }

\* node scripts/generate-route.js <name> <method>, the names of the
\* invocations pairwise distinct
GenerateRoute ==
  /\ cli = "worker"
  /\ pc = "done"
  /\ err = ""
  /\ Cardinality(RouteRuns) < MaxRoutes
  /\ \E name \in {<<"a">>, <<"a", "B">>, <<"B", "a">>}, method \in {"get", "post"} :
       /\ \A k \in RouteRuns : procs[k].name # name
       /\ IF (\E i, j \in 1..Len(ScriptDeclarations) : i < j /\ ScriptDeclarations[i] = ScriptDeclarations[j])
          THEN /\ procs' = Append(procs, [cmd |-> "generate-route", ok |-> FALSE,
                                          name |-> name, method |-> method])
               /\ printed' = printed \cup {"SyntaxError"}
               /\ UNCHANGED <<fs, writes>>
          ELSE /\ procs' = Append(procs, [cmd |-> "generate-route", ok |-> TRUE,
                                          name |-> name, method |-> method])
               /\ printed' = printed \cup {"Route generated successfully"}
               /\ LET file(t) == [tmpl |-> t, tokens |-> {},
                                  body |-> [name |-> name, method |-> method]]
                      index == [fs[<<"src", "index.ts">>] EXCEPT
                                  !.body = AddRoute(AddImport(@, name), name)]
                      t == RouteFile("schemas", name) :> file("schemaContent") @@
                           RouteFile("routes", name) :> file("routeContent") @@
                           <<"src", "index.ts">> :> index
                  IN /\ fs' = [p \in DOMAIN fs \cup DOMAIN t |->
                                 IF p \in DOMAIN t THEN t[p] ELSE fs[p]]
                     /\ writes' = CountWrites(writes, DOMAIN t)
  /\ UNCHANGED <<npmrc, stat, packageManager, cli, inp, pc, config, config0, dirs, snap, err, exitCode, runs>>

\* create-worker-app <name> on a path that does not exist, then the script
RoutesInit == Init /\ cli = "worker" /\ inp.fromArgv /\ dirs = {}

RoutesNext ==
  \/ WorkerStart
  \/ WorkerQuestions
  \/ WorkerCreate
  \/ WorkerInstall
  \/ GenerateRoute

SpecRoutes == RoutesInit /\ [][RoutesNext]_vars

\* C22 (as stated): after generate-route invocations with pairwise distinct
\* names on a freshly generated project, src/index.ts has exactly one import
\* line and exactly one app.route registration for each generated route, the
\* health route's import and registration are still there, every import line
\* is above the '// Routes' comment, and a schema file and a route file exist
\* for each generated name.
C22_RoutesRegistered ==
  \A k \in RouteRuns :
    LET name == procs[k].name
        lines == fs[<<"src", "index.ts">>].body
        with(text) == { i \in 1..Len(lines) : HasText(lines[i], text) /\ lines[i].name = name }
    IN /\ RouteFile("schemas", name) \in DOMAIN fs
       /\ RouteFile("routes", name) \in DOMAIN fs
       /\ Cardinality(with("import")) = 1
       /\ Cardinality(with("app.route")) = 1
       /\ \E i \in 1..Len(lines) : lines[i].no = 38
       /\ \E i \in 1..Len(lines) : lines[i].no = 47
       /\ \A i \in 1..Len(lines) :
            HasText(lines[i], "import") => i < FirstFrom(lines, 1, "// Routes")

\* ---------------------------------------------------------------------------
\* The script that publishes create-worker-app to GitHub Packages
\* ---------------------------------------------------------------------------

PackagePath == <<"package.json">>
BackupPath == <<"package.json.backup">>
PackageFile(body) == [tmpl |-> "package.json", tokens |-> {}, body |-> body]

\* JSON.stringify(originalPackage, null, 2)
Stringify(package) == [package EXCEPT !.text = "JSON.stringify(_, null, 2)"]

PublishInit ==
  /\ cli = "publish"
  /\ inp \in ([ package : ([ name : {"create-worker-app"},
                             version : {"1.0.0", "1.0.1"},
                             publishConfig : {"none"},
                             text : {"JSON.stringify(_, null, 2)", "hand-written"} ]),
                staleBackup : BOOLEAN,
                registrySet : BOOLEAN ])
  /\ pc = "backup"
  /\ config = NoConfig
  /\ config0 = NoConfig
  /\ dirs = {<<>>}
  /\ fs = IF inp.staleBackup
          THEN PackagePath :> PackageFile(inp.package) @@
               BackupPath :> PackageFile(Stringify(inp.package))
          ELSE PackagePath :> PackageFile(inp.package)
  /\ snap = [dirs |-> dirs, fs |-> fs]
  /\ writes = EmptyMap
  /\ err = ""
  /\ exitCode = -1
  /\ procs = <<>>
  /\ printed = {}
  /\ runs = 1
  /\ npmrc = IF inp.registrySet THEN {("@leeguooooo:registry")} ELSE {}
  /\ stat = "none"
  /\ packageManager = ""

\* catch (error) { console.error(...); process.exit(1); }: the process ends
\* inside the catch block, the finally block does not run
PublishCatch ==
  /\ printed' = printed \cup {"Failed to publish"}
  /\ Fail("Failed to publish", 1)

PublishFrame == UNCHANGED <<stat, packageManager, cli, inp, config, config0, dirs, snap, runs>>

\* fs.writeFileSync(`${packagePath}.backup`, JSON.stringify(originalPackage, null, 2))
PublishBackup ==
  /\ cli = "publish"
  /\ pc = "backup"
  /\ \/ /\ PublishCatch
        /\ UNCHANGED <<fs, writes>>
     \/ /\ fs' = [p \in DOMAIN fs \cup {BackupPath} |->
                    IF p = BackupPath THEN PackageFile(Stringify(inp.package)) ELSE fs[p]]
        /\ writes' = CountWrites(writes, {BackupPath})
        /\ pc' = "write"
        /\ UNCHANGED <<err, exitCode, printed>>
  /\ UNCHANGED <<npmrc, procs>>
  /\ PublishFrame

\* fs.writeFileSync(packagePath, JSON.stringify(githubPackage, null, 2))
PublishWrite ==
  /\ cli = "publish"
  /\ pc = "write"
  /\ \/ /\ PublishCatch
        /\ UNCHANGED <<fs, writes>>
     \/ /\ fs' = [fs EXCEPT ![PackagePath] =
                    PackageFile(Stringify(([inp.package EXCEPT !.name = "@leeguooooo/create-worker-app",
                                                                   !.publishConfig = "https://npm.pkg.github.com"])))]
        /\ writes' = CountWrites(writes, {PackagePath})
        /\ pc' = "set"
        /\ UNCHANGED <<err, exitCode, printed>>
  /\ UNCHANGED <<npmrc, procs>>
  /\ PublishFrame

\* execSync('npm config set @leeguooooo:registry https://npm.pkg.github.com')
PublishSetRegistry ==
  /\ cli = "publish"
  /\ pc = "set"
  /\ \E ok \in BOOLEAN :
       /\ procs' = Append(procs, [cmd |-> "npm config set", ok |-> ok])
       /\ IF ok
          THEN /\ npmrc' = npmrc \cup {("@leeguooooo:registry")}
               /\ pc' = "publish"
               /\ UNCHANGED <<err, exitCode, printed>>
          ELSE /\ PublishCatch
               /\ UNCHANGED npmrc
  /\ UNCHANGED <<fs, writes>>
  /\ PublishFrame

\* execSync('npm publish'), then the success message
PublishPackage ==
  /\ cli = "publish"
  /\ pc = "publish"
  /\ \E ok \in BOOLEAN :
       /\ procs' = Append(procs, [cmd |-> "npm publish", ok |-> ok])
       /\ IF ok
          THEN /\ printed' = printed \cup {"Successfully published to GitHub Packages"}
               /\ pc' = "restore"
               /\ UNCHANGED <<err, exitCode>>
          ELSE PublishCatch
  /\ UNCHANGED <<npmrc, fs, writes>>
  /\ PublishFrame

\* finally: if (fs.existsSync(backup)) fs.renameSync(backup, packagePath)
PublishRestore ==
  /\ cli = "publish"
  /\ pc = "restore"
  /\ IF BackupPath \in DOMAIN fs
     THEN \/ /\ Fail("uncaught exception", 1)
             /\ UNCHANGED <<fs, writes>>
          \/ /\ fs' = [p \in DOMAIN fs \ {BackupPath} |->
                         IF p = PackagePath THEN fs[BackupPath] ELSE fs[p]]
             /\ writes' = CountWrites(writes, {PackagePath})
             /\ pc' = "reset"
             /\ UNCHANGED <<err, exitCode>>
     ELSE /\ pc' = "reset"
          /\ UNCHANGED <<fs, writes, err, exitCode>>
  /\ UNCHANGED <<npmrc, procs, printed>>
  /\ PublishFrame

\* finally: execSync('npm config delete @leeguooooo:registry'), then the end
\* of the script
PublishResetRegistry ==
  /\ cli = "publish"
  /\ pc = "reset"
  /\ \E ok \in BOOLEAN :
       /\ procs' = Append(procs, [cmd |-> "npm config delete", ok |-> ok])
       /\ IF ok
          THEN /\ npmrc' = npmrc \ {("@leeguooooo:registry")}
               /\ Fail("", 0)
          ELSE /\ Fail("uncaught exception", 1)
               /\ UNCHANGED npmrc
  /\ UNCHANGED <<fs, writes, printed>>
  /\ PublishFrame

PublishNext ==
  \/ PublishBackup
  \/ PublishWrite
  \/ PublishSetRegistry
  \/ PublishPackage
  \/ PublishRestore
  \/ PublishResetRegistry

SpecPublish == PublishInit /\ [][PublishNext]_vars

\* C23 (as stated): whether 'npm publish' succeeds or fails, when the process
\* of the publish script ends package.json holds the original name and no
\* publishConfig, no package.json.backup remains, and the @leeguooooo:registry
\* npm setting has been removed.
C23_PackageJsonRestored ==
  (cli = "publish" /\ pc = "done"
     /\ \E k \in 1..Len(procs) : procs[k].cmd = "npm publish") =>
    /\ fs[PackagePath].body.name = inp.package.name
    /\ fs[PackagePath].body.publishConfig = "none"
    /\ BackupPath \notin DOMAIN fs
    /\ ("@leeguooooo:registry") \notin npmrc

\* ---------------------------------------------------------------------------
\* Project names of create-lambda-app
\* ---------------------------------------------------------------------------

\* C24 (as stated): every project name create-lambda-app accepts matches
\* ^[a-z][a-z0-9-]*$ after normalization; a name that does not match is
\* rejected before any further prompt, before the directory check and before
\* any change of the file system; and normalizing a normalized name changes
\* nothing.
C24_AcceptedNamesValid ==
  IsLambda =>
    /\ config0 # NoConfig => ValidName(config0.Name)
    /\ ~ValidName(NormalizeName(inp.name)) =>
         /\ config0 = NoConfig
         /\ pc \in {"start", "done"}
         /\ dirs = snap.dirs /\ fs = snap.fs
    /\ NormalizeName(NormalizeName(inp.name)) = NormalizeName(inp.name)

\* ---------------------------------------------------------------------------
\* The directory check of run
\* ---------------------------------------------------------------------------

\* C25: run goes on to Generate only when os.Stat reported "does not exist";
\* when Stat succeeded or failed with another error, run has returned an error
\* and no file or directory was created.
C25_GenerateOnlyWhenNotExist ==
  (IsLambda /\ stat # "none") =>
    /\ pc \notin {"start", "stat", "done"} => stat = "not exist"
    /\ stat # "not exist" =>
         /\ pc = "done"
         /\ err \in {"already exists", "error checking directory"}
         /\ exitCode = 1
         /\ dirs = snap.dirs
         /\ fs = snap.fs

\* Stat failed with permission denied for a path that does not exist, and
\* run has returned
C25_Witness ==
  IsLambda /\ stat = "permission denied" /\ ~Exists /\ pc = "done"

\* ---------------------------------------------------------------------------
\* The metadata file and the rest of the tree
\* ---------------------------------------------------------------------------

\* C26: .create-lambda-app is written last: whenever the current run has
\* written it, every architecture, common, deployment and feature file
\* selected for the configuration has been written by that run and exists.
C26_MetadataWrittenLast ==
  (IsLambda /\ MetadataPath \in DOMAIN writes) =>
    \A p \in SelectedPaths(config) : p \in DOMAIN writes /\ p \in DOMAIN fs

\* The metadata file was just written for a configuration with two features
C26_Witness ==
  /\ IsLambda
  /\ MetadataPath \in DOMAIN writes
  /\ pc = "git"
  /\ Cardinality(GetEnabledFeatures(config)) >= 2

\* ---------------------------------------------------------------------------
\* Composition of the feature flags
\* ---------------------------------------------------------------------------

\* C27: for a fixed architecture and deployment tool the files generated for
\* a feature set F are the files of the empty feature set together with the
\* files of each member of F; every subset of F gives a subset of the files,
\* the order in which the features were listed does not matter, and flags
\* other than api, dynamodb and sqs add no file.
C27_FeaturesCompose ==
  GenerateSucceeded =>
    LET arch == config.Architecture
        tool == config.DeploymentTool
        F == GetEnabledFeatures(config)
    IN /\ DOMAIN writes = PathsFor(arch, tool, {})
                            \cup UNION { DOMAIN FeatureFiles(arch, f) : f \in F }
       /\ \A G \in SUBSET F : PathsFor(arch, tool, G) \subseteq DOMAIN writes
       /\ \A list \in Orderings(F) :
            SelectedPaths([config EXCEPT !.Features = ([f \in Range(list) |-> TRUE])]) = DOMAIN writes
       /\ DOMAIN writes = PathsFor(arch, tool, F \cap {"api", "dynamodb", "sqs"})

\* A successful run with api, dynamodb and a flag without generator
C27_Witness ==
  /\ GenerateSucceeded
  /\ GetEnabledFeatures(config) = {"api", "dynamodb", "cognito"}
  /\ pc = "done"

\* ---------------------------------------------------------------------------
\* InitGit
\* ---------------------------------------------------------------------------

\* The git subprocesses of the current run, in the order they were started
GitProcs == SelectSeq(procs, LAMBDA p : p.cmd \in Range(GitCommands))

\* C28: InitGit runs git init, git add and git commit in this order inside the
\* project directory; a step runs only if every earlier step succeeded; the
\* first failing step makes InitGit return an error naming that step; and
\* InitGit returns nil only when all three succeeded.
C28_InitGitStopsAtFirstFailure ==
  (/\ IsLambda
   /\ config # NoConfig
   /\ pc = "install" \/ (pc = "done" /\ err = "")
   /\ ~config.SkipGit) =>
    LET g == GitProcs
        n == Len(g)
    IN /\ n \in 1..3
       /\ \A i \in 1..n : g[i].cmd = GitCommands[i] /\ g[i].dir = ProjectPath
       /\ ProjectPath \in dirs
       /\ \A i \in 1..(n - 1) : g[i].ok
       /\ ~g[n].ok => (printed \cap {"failed to initialize git repository", "failed to add files to git",
                                     "failed to create initial commit"}) = {InitGitError(n - 1)}
       /\ (printed \cap {"failed to initialize git repository", "failed to add files to git",
                         "failed to create initial commit"}) = {} <=> (n = 3 /\ g[3].ok)

\* git init succeeded, git add failed, and git commit was not started
C28_Witness ==
  /\ (/\ IsLambda
      /\ config # NoConfig
      /\ pc = "install" \/ (pc = "done" /\ err = "")
      /\ ~config.SkipGit)
  /\ Len(GitProcs) = 2
  /\ GitProcs[1].ok /\ ~GitProcs[2].ok
  /\ "failed to add files to git" \in printed

\* ---------------------------------------------------------------------------
\* detectPackageManager of create-worker-app
\* ---------------------------------------------------------------------------

\* userAgent.includes(text), for the texts that are whole tokens
Includes(userAgent, text) == \E i \in 1..Len(userAgent) : userAgent[i] = text

DetectInit ==
  /\ cli = "detect"
  /\ inp \in ([ userAgent : ({ <<>>, <<"npm", "node">>, <<"npm", "node", "workspaces">>, <<"pnpm", "npm", "node">>,
                               <<"yarn", "npm", "node">>, <<"bun", "npm", "node">> }), installed : SUBSET {"pnpm", "yarn", "bun"} ])
  /\ pc = "userAgent"
  /\ config = NoConfig
  /\ config0 = NoConfig
  /\ dirs = {}
  /\ fs = EmptyMap
  /\ snap = [dirs |-> dirs, fs |-> fs]
  /\ writes = EmptyMap
  /\ err = ""
  /\ exitCode = -1
  /\ procs = <<>>
  /\ printed = {}
  /\ runs = 1
  /\ npmrc = {}
  /\ stat = "none"
  /\ packageManager = ""

\* return 'pnpm' | 'yarn' | 'bun' | 'npm'
Return(result) ==
  /\ packageManager' = result
  /\ pc' = "done"

\* if (userAgent.includes('pnpm')) ... else if ('yarn') ... else if ('bun')
DetectUserAgent ==
  /\ cli = "detect"
  /\ pc = "userAgent"
  /\ IF Includes(inp.userAgent, "pnpm") THEN Return("pnpm")
     ELSE IF Includes(inp.userAgent, "yarn") THEN Return("yarn")
     ELSE IF Includes(inp.userAgent, "bun") THEN Return("bun")
     ELSE pc' = "pnpm" /\ UNCHANGED packageManager
  /\ UNCHANGED procs
  /\ (UNCHANGED <<npmrc, stat, cli, inp, config, config0, dirs, fs, writes, snap, err,
                  exitCode, printed, runs>>)

\* try { execSync(`${pm} --version`); return pm } catch {}, for pnpm, then
\* yarn, then bun; return 'npm' after the last one
Probe ==
  /\ cli = "detect"
  /\ \E step \in {<<"pnpm", "yarn">>, <<"yarn", "bun">>, <<"bun", "npm">>} :
       LET pm == step[1]
           next == step[2]
           ok == pm \in inp.installed
       IN /\ pc = pm
          /\ procs' = Append(procs, [cmd |-> pm, ok |-> ok])
          /\ IF ok THEN Return(pm)
             ELSE IF next = "npm" THEN Return("npm")
             ELSE pc' = next /\ UNCHANGED packageManager
  /\ (UNCHANGED <<npmrc, stat, cli, inp, config, config0, dirs, fs, writes, snap, err,
                  exitCode, printed, runs>>)

DetectNext ==
  \/ DetectUserAgent
  \/ Probe

SpecDetect == DetectInit /\ [][DetectNext]_vars

\* C29 (as stated): detectPackageManager returns one of pnpm, yarn, bun and
\* npm, namely the package manager that launched the CLI according to
\* npm_config_user_agent; the installed binaries are probed only when the
\* user agent is empty.
C29_LauncherDetected ==
  (cli = "detect" /\ pc = "done") =>
    /\ packageManager \in {"pnpm", "yarn", "bun", "npm"}
    /\ inp.userAgent # <<>> =>
         /\ packageManager = inp.userAgent[1]
         /\ procs = <<>>

\* ---------------------------------------------------------------------------
\* scripts/generate-handler.go of a generated project
\* ---------------------------------------------------------------------------

\* generateHandler: template.New("handler").Parse(handlerTemplate) and
\* tmpl.Execute(file, config), as the name in `func {{.Name}}Handler`: a
\* {{.Name}} that is still there is replaced by HandlerConfig.Name, text that
\* holds no token is copied as it is
HandlerFuncName(template, name) ==
  IF "field" \in template.tokens THEN name ELSE template.fields.Name

\* C30 (as stated): the handler-name placeholders of the embedded handler and
\* test templates are still present in the generated generate-handler.go, and
\* a handler produced by it is named after the handler name the user enters.
C30_HandlerNamedAfterInput ==
  (GenerateSucceeded /\ <<"scripts", "generate-handler.go">> \in DOMAIN fs) =>
    LET template == ([tokens |-> (fs[<<"scripts", "generate-handler.go">>]).tokens, fields |-> (fs[<<"scripts", "generate-handler.go">>]).fields])
    IN /\ "field" \in template.tokens
       /\ \A name \in { <<"b">>, <<"a", "1">> } : HandlerFuncName(template, name) = name

=============================================================================
